---- MODULE Spec2Model ----
(***************************************************************************)
(* Model of the GPU frame-synchronization and resource-lifecycle engine of *)
(* chizumu-graphics: Device (gpu/device.rs), CommandBufferManager          *)
(* (gpu/command.rs), Buffer / descriptor sets (gpu/resource.rs) and the    *)
(* frame loop of Renderer::render (renderer.rs).                           *)
(*                                                                         *)
(* The CPU side is one thread issuing Device calls; the GPU is a queue of  *)
(* submissions that complete asynchronously, in submission order.  A       *)
(* blocking call (wait_semaphores, device_wait_idle) is an action whose    *)
(* guard is the condition the call waits for.                              *)
(***************************************************************************)
EXTENDS Integers, Sequences, FiniteSets, TLC

\* ---- program constants ----
MAX_FRAMES == 2
num_command_buffers_per_pool == 1

\* ---- bounds of the model ----
MaxAbsolute == 3
NumBuffers == 2
MaxInflight == 3
MaxWrites == 2
MaxSize == 2
MaxData == 3

Buffers == 1..NumBuffers
Pools == 0..(MAX_FRAMES - 1)
NumCommandBuffers == MAX_FRAMES * num_command_buffers_per_pool

VARIABLES
    frame_counters,                     \* [current, previous, absolute]
    num_used_command_buffers_per_pool,  \* pool index -> buffers handed out this cycle
    pending_destruction_buffers,        \* ResourceHub queue of dropped buffers
    buffer_state,                       \* buffer -> "none" | "live" | "pending" | "released" | "half" | "lost"
    buffer_age,                         \* buffer -> swapchain_present calls returned since it was queued
    gpu_queue,                          \* submissions the GPU has not completed yet, oldest first
    semaphore_graphics_frame,           \* value of the timeline semaphore
    commands,                           \* command buffer the caller holds: [cb, bufs]
    last_call,                          \* [op, res] of the last Device frame operation
    calls,                              \* GPU calls made by the last Device operation, in order
    reset_in_flight,                    \* a pool was reset while a submission of its slot was executing
    begins_in_row,                      \* frame_begin calls since the last present
    descriptor_set,                     \* binding index -> bound buffer (0 = nothing bound)
    last_update,                        \* last update_descriptor_set: [res, before, first_rejected]
    surface_out_of_date,                \* the swapchain no longer matches the window surface
    teardown,                           \* GPU calls made while Renderer and Device are dropped, in order
    issued,                             \* pool index -> command buffers handed out since its last reset
    write_buffer,                       \* the Buffer written by write_data: [created, size, mapped, bytes, outside]
    last_write,                         \* last write_data call: [res, before, data]
    global_descriptor_pool,             \* [max_sets, pool_sizes, sets, used]: capacity and use of the pool
    descriptor_set_layouts,             \* per layout: the Arc's strong count, its holders, destroy calls
    locks,                              \* owner of the swapchain, resource_hub and allocator mutexes
    present_thread,                     \* [pc, drain]: the thread inside swapchain_present
    worker_threads,                     \* per worker [pc, b]: a thread creating or dropping a Buffer
    release_count,                      \* per buffer: destroy_buffer calls made on its record
    platforms,                          \* SingleMeshTypePlatformRenderer::platforms
    draw_range,                         \* SingleMeshTypePlatformRenderer::draw_range
    runner_position                     \* Renderer::runner_position

vars == <<frame_counters, num_used_command_buffers_per_pool, pending_destruction_buffers,
          buffer_state, buffer_age, gpu_queue, semaphore_graphics_frame, commands,
          last_call, calls, reset_in_flight, begins_in_row, descriptor_set, last_update,
          surface_out_of_date, teardown, issued, write_buffer, last_write,
          global_descriptor_pool, descriptor_set_layouts,
          locks, present_thread, worker_threads, release_count,
          platforms, draw_range, runner_position>>

frameVars == <<frame_counters, num_used_command_buffers_per_pool, gpu_queue,
               semaphore_graphics_frame, commands, last_call, calls, reset_in_flight,
               begins_in_row, surface_out_of_date, teardown, issued>>
bufferVars == <<pending_destruction_buffers, buffer_state, buffer_age>>
descVars == <<descriptor_set, last_update>>
writeVars == <<write_buffer, last_write>>
poolVars == <<global_descriptor_pool, descriptor_set_layouts>>
MaxHolders == 2
threadVars == <<locks, present_thread, worker_threads, release_count>>
rangeVars == <<platforms, draw_range, runner_position>>
MaxPlatforms == 2
MaxRunnerSteps == 6
Workers == {"w1", "w2"}

\* ---- Device::new: the global descriptor pool (lines 106-121) ----
GLOBAL_DESCRIPTOR_POOL_DESCRIPTOR_COUNT == 128
global_descriptor_pool_max_sets == 2048
global_descriptor_pool_sizes ==
    <<[ty |-> "UNIFORM_BUFFER", descriptor_count |-> GLOBAL_DESCRIPTOR_POOL_DESCRIPTOR_COUNT],
      [ty |-> "UNIFORM_BUFFER", descriptor_count |-> GLOBAL_DESCRIPTOR_POOL_DESCRIPTOR_COUNT]>>
DescriptorTypes == {"UNIFORM_BUFFER", "STORAGE_BUFFER"}
\* layouts of the descriptor sets asked for: descriptors per type
SetLayouts ==
    {[ty \in DescriptorTypes |-> IF ty = "UNIFORM_BUFFER" THEN 1 ELSE 0],
     [ty \in DescriptorTypes |-> 1]}
NoLayout == [created |-> FALSE, strong |-> 0, destroyed |-> 0,
             creator |-> FALSE, pipelines |-> 0, sets |-> 0]

\* ---- DrawRange::new (platform.rs lines 44-53) ----
DrawRange_new == [index_offset |-> 0, index_count |-> 0,
                  first_platform_index |-> 0, last_platform_index |-> 0]

NoBuffer == [created |-> FALSE, size |-> 0, mapped |-> FALSE, bytes |-> <<>>, outside |-> 0]
NoWrite == [res |-> "none", before |-> <<>>, data |-> <<>>]

NoCommands == [cb |-> -1, bufs |-> {}]

Call(c, r) == [c |-> c, r |-> r]

CallIndicesIn(log, name) == {i \in 1..Len(log) : log[i].c = name}

RECURSIVE SeqToSet(_)
SeqToSet(s) == IF s = <<>> THEN {} ELSE {Head(s)} \cup SeqToSet(Tail(s))

\* ---- Device::new ----
Init ==
    /\ frame_counters = [current |-> 0, previous |-> 0, absolute |-> 0]
    /\ num_used_command_buffers_per_pool = [p \in Pools |-> 0]
    /\ pending_destruction_buffers = <<>>
    /\ buffer_state = [b \in Buffers |-> "none"]
    /\ buffer_age = [b \in Buffers |-> 0]
    /\ gpu_queue = <<>>
    /\ semaphore_graphics_frame = 0
    /\ commands = NoCommands
    /\ last_call = [op |-> "new", res |-> "Ok"]
    /\ calls = <<>>
    /\ reset_in_flight = FALSE
    /\ begins_in_row = 0
    /\ surface_out_of_date = FALSE
    /\ teardown = <<>>
    /\ issued = [p \in Pools |-> <<>>]
    /\ write_buffer = NoBuffer
    /\ last_write = NoWrite
    /\ global_descriptor_pool =
           [max_sets |-> global_descriptor_pool_max_sets,
            pool_sizes |-> global_descriptor_pool_sizes,
            sets |-> 0,
            used |-> [ty \in DescriptorTypes |-> 0]]
    /\ descriptor_set_layouts = [l \in SetLayouts |-> NoLayout]
    /\ locks = [swapchain |-> "free", resource_hub |-> "free", allocator |-> "free"]
    /\ present_thread = [pc |-> "idle", drain |-> <<>>]
    /\ worker_threads = [w \in Workers |-> [pc |-> "idle", b |-> 0]]
    /\ release_count = [b \in Buffers |-> 0]
    /\ platforms = <<>>
    /\ draw_range = DrawRange_new
    /\ runner_position = 0
    /\ descriptor_set = [i \in {0, 1, 2} |-> 0]
    /\ last_update = [res |-> "Ok", before |-> [i \in {0, 1, 2} |-> 0], first_rejected |-> 0]

\* ---- Device::frame_counters_advance ----
frame_counters_advance_keeps_previous(fc) ==
    [current  |-> (fc.current + 1) % MAX_FRAMES,
     previous |-> fc.previous,
     absolute |-> fc.absolute + 1]

frame_counters_advance_no_wrap(fc) ==
    [current  |-> fc.current + 1,
     previous |-> fc.current,
     absolute |-> fc.absolute + 1]

frame_counters_advance(fc) ==
    [current  |-> (fc.current + 1) % MAX_FRAMES,
     previous |-> fc.current,
     absolute |-> fc.absolute + 1]

\* ---- Device::frame_semaphore_graphics_wait_value ----
frame_semaphore_graphics_wait_value_late(absolute) == absolute - MAX_FRAMES

frame_semaphore_graphics_wait_value_ahead(absolute) == absolute + 1

frame_semaphore_graphics_wait_value(absolute) == absolute - (MAX_FRAMES - 1)

\* the condition under which frame_begin takes the timeline wait
frame_begin_waits_early(absolute) == absolute >= MAX_FRAMES - 1

frame_begin_waits_late(absolute) == absolute >= MAX_FRAMES + 1

frame_begin_waits_always(absolute) == absolute >= 0

frame_begin_waits(absolute) == absolute >= MAX_FRAMES


\* ---- CommandBufferManager::reset_command_pools (counters) ----
reset_command_pools_all(used, pool_indices) == [p \in Pools |-> 0]

reset_command_pools(used, pool_indices) ==
    [p \in Pools |-> IF p \in pool_indices THEN 0 ELSE used[p]]

\* The loop over a list of indices: failAt = 0: every CommandPool::reset
\* succeeds; failAt = i: the i-th fails and the `?` leaves the loop before the
\* counter of that pool is zeroed.
reset_command_pools_list(used, pool_indices, failAt) ==
    LET done == IF failAt = 0 THEN Len(pool_indices) ELSE failAt - 1
    IN  [res   |-> IF failAt = 0 THEN "Ok" ELSE "Err",
         used  |-> reset_command_pools(used, {pool_indices[i] : i \in 1..done}),
         calls |-> [i \in 1..(IF failAt = 0 THEN Len(pool_indices) ELSE failAt) |->
                       [c |-> "reset_command_pool",
                        r |-> IF i = failAt THEN "err" ELSE "ok",
                        pool |-> pool_indices[i]]]]

\* ---- CommandBufferManager::get_command_buffer_at_pool ----
\* the capacity test of line 129
pool_exhausted(num_used_buffers) == num_used_buffers > num_command_buffers_per_pool

\* a variant that always hands out the first buffer of the pool
get_command_buffer_at_pool_first(used, pool_index) ==
    LET num_used_buffers == used[pool_index]
        index == pool_index * num_command_buffers_per_pool
    IN  IF pool_exhausted(num_used_buffers)
        THEN [res |-> "Err", used |-> used, index |-> -1]
        ELSE [res   |-> IF index < NumCommandBuffers THEN "Ok" ELSE "Panic",
              used  |-> [used EXCEPT ![pool_index] = @ + 1],
              index |-> IF index < NumCommandBuffers THEN index ELSE -1]

\* Result of one call: Err leaves the counter alone; otherwise the counter is
\* incremented and command_buffers[index] is indexed, which panics past the end.
get_command_buffer_at_pool(used, pool_index) ==
    LET num_used_buffers == used[pool_index]
        index == (pool_index * num_command_buffers_per_pool) + num_used_buffers
    IN  IF pool_exhausted(num_used_buffers)
        THEN [res |-> "Err", used |-> used, index |-> -1]
        ELSE [res   |-> IF index < NumCommandBuffers THEN "Ok" ELSE "Panic",
              used  |-> [used EXCEPT ![pool_index] = @ + 1],
              index |-> IF index < NumCommandBuffers THEN index ELSE -1]

\* ---- Device::frame_begin, swapchain part (lines 177-190) ----
\* acq1, acq2: outcome of acquire_next_image: "ok" = Ok((_, false)),
\* "stale" = Ok((_, true)), "err" = Err(ERROR_OUT_OF_DATE_KHR), "lost" = Err of
\* any other code (ERROR_DEVICE_LOST, ...); rec: outcome of recreate.
frame_begin_acquire_loops(acq1, rec, acq2) ==
    IF acq1 = "ok"
    THEN [calls |-> <<Call("acquire_next_image", acq1)>>, ok |-> TRUE]
    ELSE IF rec = "err"
    THEN [calls |-> <<Call("acquire_next_image", acq1), Call("recreate", rec)>>, ok |-> FALSE]
    ELSE IF acq2 \in {"err", "lost"}
    THEN [calls |-> <<Call("acquire_next_image", acq1), Call("recreate", rec),
                      Call("acquire_next_image", acq2), Call("recreate", "ok"),
                      Call("acquire_next_image", "ok")>>,
          ok |-> TRUE]
    ELSE [calls |-> <<Call("acquire_next_image", acq1), Call("recreate", rec),
                      Call("acquire_next_image", acq2)>>,
          ok |-> TRUE]

frame_begin_acquire(acq1, rec, acq2) ==
    IF acq1 = "ok"
    THEN [calls |-> <<Call("acquire_next_image", acq1)>>, ok |-> TRUE]
    ELSE IF rec = "err"
    THEN [calls |-> <<Call("acquire_next_image", acq1), Call("recreate", rec)>>, ok |-> FALSE]
    ELSE [calls |-> <<Call("acquire_next_image", acq1), Call("recreate", rec),
                      Call("acquire_next_image", acq2)>>,
          ok |-> acq2 \in {"ok", "stale"}]

AcquireOutcomes == {"ok", "stale", "err", "lost"}
CallOutcomes == {"ok", "err"}
\* queue_present: "ok", "err" = Err(ERROR_OUT_OF_DATE_KHR), "lost" = Err of any other code
PresentOutcomes == {"ok", "err", "lost"}

\* ---- Swapchain: does the swapchain still match the surface? ----
\* An out-of-date report is made when the surface has changed (a resize may
\* happen before any call); no image is acquired or presented while the
\* swapchain is out of date; a successful recreate brings it up to date.
swapchain_reports(out_of_date, outcome) ==
    out_of_date => outcome \in {"err", "lost"}

swapchain_after_call(out_of_date, outcome) ==
    IF outcome = "err" THEN TRUE ELSE out_of_date

swapchain_after_acquire(out_of_date, acq1, rec, acq2) ==
    IF acq1 = "ok" THEN out_of_date
    ELSE IF rec = "err" THEN swapchain_after_call(out_of_date, acq1)
    ELSE swapchain_after_call(FALSE, acq2)

SlotsInFlight == {gpu_queue[i].slot : i \in 1..Len(gpu_queue)}

\* ---- Device::frame_begin ----
\* order of the steps of a frame_begin that gets as far as the acquisition
\* a variant that acquires the image before it resets the pool
frame_begin_steps_acquire_first(waitCalls, resetCalls, acquireCalls) ==
    waitCalls \o acquireCalls \o resetCalls

frame_begin_steps(waitCalls, resetCalls, acquireCalls) ==
    waitCalls \o resetCalls \o acquireCalls

frame_begin(wait, reset, acq1, rec, acq2) ==
    LET absolute == frame_counters.absolute
        current  == frame_counters.current
        waits    == frame_begin_waits(absolute)
        waitCalls == IF waits THEN <<Call("wait_semaphores", wait)>> ELSE <<>>
        acquire  == frame_begin_acquire(acq1, rec, acq2)
    IN  /\ last_call.res # "Panic"
        \* wait_semaphores(timeout = u64::MAX) returns Ok once the value is reached
        /\ (waits /\ wait = "ok") =>
               semaphore_graphics_frame >= frame_semaphore_graphics_wait_value(absolute)
        /\ IF waits /\ wait = "err"
           THEN /\ calls' = waitCalls
                /\ last_call' = [op |-> "frame_begin", res |-> "Err"]
                /\ UNCHANGED <<num_used_command_buffers_per_pool, reset_in_flight,
                               surface_out_of_date, issued>>
           ELSE /\ reset_in_flight' = (reset_in_flight \/ current \in SlotsInFlight)
                /\ IF reset = "err"
                   THEN /\ calls' = waitCalls \o <<Call("reset_command_pool", reset)>>
                        /\ last_call' = [op |-> "frame_begin", res |-> "Err"]
                        /\ UNCHANGED <<num_used_command_buffers_per_pool, surface_out_of_date,
                                       issued>>
                   ELSE /\ swapchain_reports(surface_out_of_date, acq1)
                        /\ surface_out_of_date' =
                               swapchain_after_acquire(surface_out_of_date, acq1, rec, acq2)
                        /\ num_used_command_buffers_per_pool' =
                               reset_command_pools(num_used_command_buffers_per_pool, {current})
                        /\ issued' = [issued EXCEPT ![current] = <<>>]
                        /\ calls' = frame_begin_steps(waitCalls,
                                         <<Call("reset_command_pool", reset)>>, acquire.calls)
                        /\ last_call' = [op |-> "frame_begin",
                                         res |-> IF acquire.ok THEN "Ok" ELSE "Err"]
        /\ begins_in_row' = IF begins_in_row < 2 THEN begins_in_row + 1 ELSE 2
        /\ UNCHANGED <<frame_counters, gpu_queue, semaphore_graphics_frame, commands>>
        /\ UNCHANGED bufferVars
        /\ UNCHANGED teardown
        /\ UNCHANGED <<rangeVars, descVars, writeVars, poolVars, threadVars>>

\* ---- Device::get_current_command_buffer ----
\* a variant that moves on to the next slot when it hands out a buffer
get_current_command_buffer_advancing ==
    LET r == get_command_buffer_at_pool(num_used_command_buffers_per_pool,
                                        frame_counters.current)
    IN  /\ last_call.res # "Panic"
        /\ frame_counters.absolute < MaxAbsolute
        /\ frame_counters' = frame_counters_advance(frame_counters)
        /\ num_used_command_buffers_per_pool' = r.used
        /\ commands' = IF r.res = "Ok" THEN [cb |-> r.index, bufs |-> {}] ELSE commands
        /\ issued' = IF r.res = "Ok"
                     THEN [issued EXCEPT ![frame_counters.current] = Append(@, r.index)]
                     ELSE issued
        /\ last_call' = [op |-> "get_current_command_buffer", res |-> r.res]
        /\ calls' = <<>>
        /\ UNCHANGED <<gpu_queue, semaphore_graphics_frame,
                       reset_in_flight, begins_in_row, surface_out_of_date>>
        /\ UNCHANGED bufferVars
        /\ UNCHANGED teardown
        /\ UNCHANGED <<rangeVars, descVars, writeVars, poolVars, threadVars>>

get_current_command_buffer ==
    LET r == get_command_buffer_at_pool(num_used_command_buffers_per_pool,
                                        frame_counters.current)
    IN  /\ last_call.res # "Panic"
        /\ num_used_command_buffers_per_pool' = r.used
        /\ commands' = IF r.res = "Ok" THEN [cb |-> r.index, bufs |-> {}] ELSE commands
        /\ issued' = IF r.res = "Ok"
                     THEN [issued EXCEPT ![frame_counters.current] = Append(@, r.index)]
                     ELSE issued
        /\ last_call' = [op |-> "get_current_command_buffer", res |-> r.res]
        /\ calls' = <<>>
        /\ UNCHANGED <<frame_counters, gpu_queue, semaphore_graphics_frame,
                       reset_in_flight, begins_in_row, surface_out_of_date>>
        /\ UNCHANGED bufferVars
        /\ UNCHANGED teardown
        /\ UNCHANGED <<rangeVars, descVars, writeVars, poolVars, threadVars>>

\* ---- CommandBuffer::bind_vertex_buffers / bind_index_buffer / draw: the
\* recorded commands reference buffer b ----
record_buffer(b) ==
    /\ last_call.res # "Panic"
    /\ commands.cb # -1
    /\ buffer_state[b] = "live"
    /\ b \notin commands.bufs
    /\ commands' = [commands EXCEPT !.bufs = @ \cup {b}]
    /\ UNCHANGED <<frame_counters, num_used_command_buffers_per_pool, gpu_queue,
                   semaphore_graphics_frame, last_call, calls, reset_in_flight,
                   begins_in_row, surface_out_of_date>>
    /\ UNCHANGED bufferVars
    /\ UNCHANGED <<teardown, issued>>
    /\ UNCHANGED <<rangeVars, descVars, writeVars, poolVars, threadVars>>

\* ---- Device::queue_submit_commands_graphics: the semaphore lists ----
\* wait list (lines 219-224)
submit_wait_semaphores == {"semaphore_swapchain_image_acquired"}

\* index of the render-complete semaphore in the signal list (lines 235-240)
submit_signal_render_complete_previous(fc) == fc.previous

submit_signal_render_complete(fc) == fc.current

\* value the timeline semaphore is raised to (lines 242-246)
submit_signal_timeline_value_of_slot(fc) == fc.current + 1

submit_signal_timeline_value(fc) == fc.absolute + 1

\* ---- Device::queue_submit_commands_graphics ----
queue_submit_commands_graphics(submit) ==
    /\ last_call.res # "Panic"
    /\ commands.cb # -1
    /\ Len(gpu_queue) < MaxInflight
    /\ IF submit = "ok"
       THEN gpu_queue' = Append(gpu_queue,
                [slot   |-> frame_counters.current,
                 wait   |-> submit_wait_semaphores,
                 render_complete |-> submit_signal_render_complete(frame_counters),
                 signal |-> submit_signal_timeline_value(frame_counters),
                 cb     |-> commands.cb,
                 bufs   |-> commands.bufs])
       ELSE UNCHANGED gpu_queue
    /\ commands' = NoCommands
    /\ calls' = <<[c |-> "queue_submit", r |-> submit,
                    signal |-> submit_signal_render_complete(frame_counters)]>>
    /\ last_call' = [op |-> "queue_submit_commands_graphics",
                     res |-> IF submit = "ok" THEN "Ok" ELSE "Err"]
    /\ UNCHANGED <<frame_counters, num_used_command_buffers_per_pool,
                   semaphore_graphics_frame, reset_in_flight, begins_in_row,
                   surface_out_of_date>>
    /\ UNCHANGED bufferVars
    /\ UNCHANGED <<teardown, issued>>
    /\ UNCHANGED <<rangeVars, descVars, writeVars, poolVars, threadVars>>

\* ---- the GPU finishes its oldest submission and signals the timeline ----
gpu_complete ==
    /\ gpu_queue # <<>>
    /\ semaphore_graphics_frame' = Head(gpu_queue).signal
    /\ gpu_queue' = Tail(gpu_queue)
    /\ UNCHANGED <<frame_counters, num_used_command_buffers_per_pool, commands,
                   last_call, calls, reset_in_flight, begins_in_row, surface_out_of_date>>
    /\ UNCHANGED bufferVars
    /\ UNCHANGED <<teardown, issued>>
    /\ UNCHANGED <<rangeVars, descVars, writeVars, poolVars, threadVars>>


\* ---- Device::create_buffer (successful) ----
create_buffer(b) ==
    /\ buffer_state[b] = "none"
    /\ \A c \in Buffers : c < b => buffer_state[c] # "none"
    /\ buffer_state' = [buffer_state EXCEPT ![b] = "live"]
    /\ UNCHANGED <<pending_destruction_buffers, buffer_age>>
    /\ UNCHANGED frameVars
    /\ UNCHANGED <<rangeVars, descVars, writeVars, poolVars, threadVars>>

\* ---- Device::schedule_buffer_destruction ----
schedule_buffer_destruction_twice(queue, b) == Append(Append(queue, b), b)

schedule_buffer_destruction(queue, b) == Append(queue, b)

\* ---- impl Drop for Buffer ----
drop_buffer(b) ==
    /\ buffer_state[b] = "live"
    /\ pending_destruction_buffers' =
           schedule_buffer_destruction(pending_destruction_buffers, b)
    /\ buffer_state' = [buffer_state EXCEPT ![b] = "pending"]
    /\ buffer_age' = [buffer_age EXCEPT ![b] = 0]
    /\ UNCHANGED frameVars
    /\ UNCHANGED <<rangeVars, descVars, writeVars, poolVars, threadVars>>

\* ---- Device::destroy_buffer ----
\* vkDestroyBuffer, then allocator.free(allocation)?: "half" is a destroyed
\* handle whose memory was not freed.
destroy_buffer(free) == IF free = "ok" THEN "released" ELSE "half"

\* ---- Device::cleanup_resources ----
\* failAt = 0: every destroy_buffer succeeds; failAt = i: the i-th fails and
\* the `?` leaves the loop, the Drain drops the records behind it unreleased.
\* a variant that walks the queue without taking the records out of it
cleanup_resources_keeps_queue(queue, failAt) ==
    [ok     |-> failAt = 0,
     calls  |-> [i \in 1..(IF failAt = 0 THEN Len(queue) ELSE failAt) |->
                    Call("destroy_buffer", IF i = failAt THEN "err" ELSE "ok")],
     state  |-> [b \in SeqToSet(queue) |->
                    LET i == CHOOSE j \in 1..Len(queue) : queue[j] = b
                    IN  IF failAt = 0 \/ i < failAt THEN destroy_buffer("ok")
                        ELSE IF i = failAt THEN destroy_buffer("err")
                        ELSE "lost"],
     released |-> [b \in Buffers |->
                    Cardinality({i \in 1..(IF failAt = 0 THEN Len(queue) ELSE failAt) :
                                    queue[i] = b})],
     queue  |-> queue]

cleanup_resources(queue, failAt) ==
    [ok     |-> failAt = 0,
     calls  |-> [i \in 1..(IF failAt = 0 THEN Len(queue) ELSE failAt) |->
                    Call("destroy_buffer", IF i = failAt THEN "err" ELSE "ok")],
     state  |-> [b \in SeqToSet(queue) |->
                    LET i == CHOOSE j \in 1..Len(queue) : queue[j] = b
                    IN  IF failAt = 0 \/ i < failAt THEN destroy_buffer("ok")
                        ELSE IF i = failAt THEN destroy_buffer("err")
                        ELSE "lost"],
     released |-> [b \in Buffers |->
                    Cardinality({i \in 1..(IF failAt = 0 THEN Len(queue) ELSE failAt) :
                                    queue[i] = b})],
     queue  |-> <<>>]

\* order of the steps of swapchain_present after the queue present
swapchain_present_steps(cleanupCalls) ==
    <<Call("frame_counters_advance", "ok")>> \o cleanupCalls

\* does swapchain_present go on to advance the counters?
swapchain_present_advances_on_success(present, idle) == present = "ok"

swapchain_present_advances(present, idle) == present = "ok" \/ idle = "ok"

\* device_wait_idle blocks until the queue has completed every submission
device_wait_idle_returns_at_once(queue) == TRUE

device_wait_idle_returns(queue) == queue = <<>>

\* slot of the render-complete semaphore handed to queue_present (line 200)
\* a variant that reads the slot after the counters have advanced
present_wait_render_complete_after_advance(fc) == frame_counters_advance(fc).current

present_wait_render_complete(fc) == fc.current

\* ---- Device::swapchain_present ----
swapchain_present(present, idle, failAt) ==
    LET presentCalls == <<[c |-> "queue_present", r |-> present,
                           wait |-> present_wait_render_complete(frame_counters)]>> \o
                        (IF present # "ok" THEN <<Call("device_wait_idle", idle)>> ELSE <<>>)
        cleanup == cleanup_resources(pending_destruction_buffers, failAt)
    IN  /\ last_call.res # "Panic"
        /\ frame_counters.absolute < MaxAbsolute
        /\ failAt <= Len(pending_destruction_buffers)
        /\ swapchain_reports(surface_out_of_date, present)
        /\ surface_out_of_date' = swapchain_after_call(surface_out_of_date, present)
        \* device_wait_idle returns Ok once the GPU has nothing left to execute
        /\ (present # "ok" /\ idle = "ok") => device_wait_idle_returns(gpu_queue)
        /\ IF swapchain_present_advances(present, idle)
           THEN /\ frame_counters' = frame_counters_advance(frame_counters)
                /\ pending_destruction_buffers' = cleanup.queue
                /\ buffer_state' = [b \in Buffers |->
                       IF b \in DOMAIN cleanup.state THEN cleanup.state[b]
                       ELSE buffer_state[b]]
                /\ buffer_age' = buffer_age
                /\ release_count' = [b \in Buffers |-> release_count[b] + cleanup.released[b]]
                /\ calls' = presentCalls \o swapchain_present_steps(cleanup.calls)
                /\ last_call' = [op |-> "swapchain_present",
                                 res |-> IF cleanup.ok THEN "Ok" ELSE "Err"]
           ELSE /\ calls' = presentCalls
                /\ last_call' = [op |-> "swapchain_present", res |-> "Err"]
                /\ buffer_age' = [b \in Buffers |->
                       IF buffer_state[b] = "pending" /\ buffer_age[b] < MAX_FRAMES
                       THEN buffer_age[b] + 1 ELSE buffer_age[b]]
                /\ UNCHANGED <<frame_counters, pending_destruction_buffers, buffer_state,
                               release_count>>
        /\ begins_in_row' = 0
        /\ UNCHANGED <<num_used_command_buffers_per_pool, gpu_queue,
                       semaphore_graphics_frame, commands, reset_in_flight>>
        /\ UNCHANGED <<teardown, issued>>
        /\ UNCHANGED <<rangeVars, descVars, writeVars, poolVars, locks, present_thread, worker_threads>>


\* ---- DescriptorSetLayout::bindings_map of the descriptor set under test ----
\* binding index -> descriptor type; index 3 is absent from the layout.
bindings_map == (0 :> "UNIFORM_BUFFER") @@ (1 :> "STORAGE_BUFFER") @@ (2 :> "SAMPLED_IMAGE")

BindingIndices == 0..3

BufferWrites == [binding_index : BindingIndices, buffer : Buffers]

WriteBatches == UNION {[1..n -> BufferWrites] : n \in 0..MaxWrites}

\* the test of one DescriptorBindingBufferWrite (lines 400-444)
write_accepted(w) ==
    /\ w.binding_index \in DOMAIN bindings_map
    /\ bindings_map[w.binding_index] \in {"UNIFORM_BUFFER", "STORAGE_BUFFER"}

\* vkUpdateDescriptorSets: the writes are applied in order
RECURSIVE apply_writes(_, _)
apply_writes(set, writes) ==
    IF writes = <<>> THEN set
    ELSE apply_writes([set EXCEPT ![Head(writes).binding_index] = Head(writes).buffer],
                      Tail(writes))

\* a variant that writes each descriptor as soon as it has been validated
RECURSIVE update_descriptor_set_eager(_, _)
update_descriptor_set_eager(set, writes) ==
    IF writes = <<>> THEN [res |-> "Ok", set |-> set]
    ELSE IF ~write_accepted(Head(writes)) THEN [res |-> "Err", set |-> set]
    ELSE update_descriptor_set_eager(
             [set EXCEPT ![Head(writes).binding_index] = Head(writes).buffer],
             Tail(writes))

\* ---- Device::update_descriptor_set ----
\* The loop only collects vulkan_write_descriptors and returns Err at the first
\* rejected write; vkUpdateDescriptorSets runs after the loop.
update_descriptor_set(set, writes) ==
    IF \E i \in 1..Len(writes) : ~write_accepted(writes[i])
    THEN [res |-> "Err", set |-> set]
    ELSE [res |-> "Ok", set |-> apply_writes(set, writes)]

\* A write the layout has no buffer binding for: the index is absent from the
\* layout (3) or declared as a sampled image (2).
BadWrite(w) ==
    \/ w.binding_index \notin {0, 1, 2}
    \/ w.binding_index = 2

\* position of the first such write of a batch, 0 when there is none
FirstRejected(writes) ==
    IF \E i \in 1..Len(writes) : BadWrite(writes[i])
    THEN CHOOSE i \in 1..Len(writes) :
            BadWrite(writes[i]) /\ \A j \in 1..(i - 1) : ~BadWrite(writes[j])
    ELSE 0

do_update_descriptor_set(writes) ==
    LET r == update_descriptor_set(descriptor_set, writes)
    IN  /\ \A i \in 1..Len(writes) : buffer_state[writes[i].buffer] = "live"
        /\ descriptor_set' = r.set
        /\ last_update' = [res |-> r.res, before |-> descriptor_set,
                           first_rejected |-> FirstRejected(writes)]
        /\ UNCHANGED frameVars
        /\ UNCHANGED bufferVars
        /\ UNCHANGED <<rangeVars, writeVars, poolVars, threadVars>>

\* ---- Buffer of BufferDescriptor {size, memory_location} (Device::create_buffer) ----
\* Bytes are stored as 1..2; 0 marks a byte of the allocation not written yet.
\* The allocator maps host-visible memory: CpuToGpu and GpuToCpu are always
\* mapped, GpuOnly only where device-local memory is also host-visible.
MemoryLocations == {"GpuOnly", "CpuToGpu", "GpuToCpu"}
Bytes == {1, 2}
DataSlices == UNION {[1..n -> Bytes] : n \in 0..MaxData}

create_buffer_desc(size, memory_location, mapped) ==
    /\ last_write.res # "Panic"
    /\ memory_location # "GpuOnly" => mapped
    /\ write_buffer' = [created |-> TRUE, size |-> size, mapped |-> mapped,
                        bytes |-> [i \in 1..size |-> 0], outside |-> 0]
    /\ last_write' = NoWrite
    /\ UNCHANGED frameVars
    /\ UNCHANGED bufferVars
    /\ UNCHANGED <<rangeVars, descVars, poolVars, threadVars>>

\* ---- Buffer::write_data ----
\* mapped_ptr().unwrap() panics without a mapped pointer; otherwise
\* size_of_val(data) bytes are copied to the start of the mapping, whatever the
\* size of the buffer: `outside` counts the bytes written past its end.
\* a variant that starts the copy one byte into the mapping
write_data_shifted(buffer, data) ==
    IF ~buffer.mapped
    THEN [res |-> "Panic", buffer |-> buffer]
    ELSE [res |-> "Ok",
          buffer |-> [buffer EXCEPT
              !.bytes = [i \in 1..buffer.size |->
                            IF 1 < i /\ i <= Len(data) + 1 THEN data[i - 1]
                            ELSE buffer.bytes[i]]]]

write_data(buffer, data) ==
    IF ~buffer.mapped
    THEN [res |-> "Panic", buffer |-> buffer]
    ELSE [res |-> "Ok",
          buffer |-> [buffer EXCEPT
              !.bytes = [i \in 1..buffer.size |->
                            IF i <= Len(data) THEN data[i] ELSE buffer.bytes[i]],
              !.outside = IF Len(data) > buffer.size THEN Len(data) - buffer.size
                          ELSE buffer.outside]]

\* read of the first n bytes of the buffer through the mapped pointer
read_mapped(buffer, n) == [i \in 1..n |-> buffer.bytes[i]]

do_write_data(data) ==
    LET r == write_data(write_buffer, data)
    IN  /\ last_write.res # "Panic"
        /\ write_buffer.created
        /\ write_buffer' = r.buffer
        /\ last_write' = [res |-> r.res, before |-> write_buffer.bytes, data |-> data]
        /\ UNCHANGED frameVars
        /\ UNCHANGED bufferVars
        /\ UNCHANGED <<rangeVars, descVars, poolVars, threadVars>>

\* ---- Renderer::render: the order in which the frame loop calls the Device ----
\* a variant without the `?` after each call: render goes on after an Err
render_pc_ignoring_errors ==
    IF teardown # <<>> THEN "dropped"
    ELSE CASE last_call.op = "new" -> "idle"
           [] last_call.op = "swapchain_present" -> "idle"
           [] last_call.op = "frame_begin" -> "begun"
           [] last_call.op = "get_current_command_buffer" -> "recording"
           [] last_call.op = "queue_submit_commands_graphics" -> "submitted"

render_pc ==
    IF teardown # <<>> THEN "dropped"
    ELSE IF last_call.res # "Ok" THEN "failed"
    ELSE CASE last_call.op = "new" -> "idle"
           [] last_call.op = "swapchain_present" -> "idle"
           [] last_call.op = "frame_begin" -> "begun"
           [] last_call.op = "get_current_command_buffer" -> "recording"
           [] last_call.op = "queue_submit_commands_graphics" -> "submitted"

\* Outcomes of the GPU calls of one frame_begin; an outcome of a call that is not
\* reached is fixed to "ok".
frame_begin_outcomes ==
    {o \in CallOutcomes \X CallOutcomes \X AcquireOutcomes \X CallOutcomes \X AcquireOutcomes :
        /\ o[1] = "err" => (frame_begin_waits(frame_counters.absolute) /\ o[2] = "ok")
        /\ o[2] = "err" => o[3] = "ok"
        /\ o[3] = "ok" => o[4] = "ok"
        /\ o[4] = "err" => o[5] = "ok"}

render_frame_begin ==
    /\ render_pc = "idle"
    /\ \E o \in frame_begin_outcomes : frame_begin(o[1], o[2], o[3], o[4], o[5])

render_get_current_command_buffer ==
    /\ render_pc = "begun"
    /\ get_current_command_buffer

render_record ==
    /\ render_pc = "recording"
    /\ \E b \in Buffers : record_buffer(b)

render_submit ==
    /\ render_pc = "recording"
    /\ \E submit \in CallOutcomes : queue_submit_commands_graphics(submit)

render_present ==
    /\ render_pc = "submitted"
    /\ \E present \in PresentOutcomes, idle \in CallOutcomes,
          failAt \in 0..Len(pending_destruction_buffers) :
          (present = "ok" => idle = "ok") /\ swapchain_present(present, idle, failAt)

consumer_create_buffer == teardown = <<>> /\ \E b \in Buffers : create_buffer(b)

consumer_drop_buffer == teardown = <<>> /\ \E b \in Buffers : drop_buffer(b)

\* ---- drop of the Renderer: its fields are dropped in declaration order ----
\* Every Buffer field queues itself; each component renderer drops its
\* descriptor sets (no GPU call), then its Pipeline, whose Drop destroys the
\* pipeline and the pipeline layout and releases the last reference to the
\* descriptor-set layouts, and only then its Arc<Device>.
\* a variant in which the Buffer fields are forgotten instead of dropped
drop_buffers_forgets(queue, bs) == queue

RECURSIVE drop_buffers(_, _)
drop_buffers(queue, bs) ==
    IF bs = {} THEN queue
    ELSE LET b == CHOOSE x \in bs : \A y \in bs : x <= y
         IN  drop_buffers(schedule_buffer_destruction(queue, b), bs \ {b})

drop_pipeline ==
    <<Call("destroy_pipeline", "ok"), Call("destroy_pipeline_layout", "ok"),
      Call("destroy_descriptor_set_layout", "ok")>>

renderer_drop ==
    LET live == {b \in Buffers : buffer_state[b] = "live"}
    IN  /\ render_pc \in {"idle", "failed"}
        /\ pending_destruction_buffers' = drop_buffers(pending_destruction_buffers, live)
        /\ buffer_state' = [b \in Buffers |-> IF b \in live THEN "pending" ELSE buffer_state[b]]
        /\ buffer_age' = [b \in Buffers |-> IF b \in live THEN 0 ELSE buffer_age[b]]
        \* platform_renderer, then hit_renderer
        /\ teardown' = drop_pipeline \o drop_pipeline
        /\ UNCHANGED <<frame_counters, num_used_command_buffers_per_pool, gpu_queue,
                       semaphore_graphics_frame, commands, last_call, calls,
                       reset_in_flight, begins_in_row, surface_out_of_date, issued>>
        /\ UNCHANGED <<rangeVars, descVars, writeVars, poolVars, threadVars>>

\* ---- impl Drop for Device, then the drop of the Device's fields ----
\* Runs when the last Arc<Device> is released, at the end of the Renderer's
\* drop. Both unwraps panic on Err; the fields are still dropped while that
\* panic unwinds, unless the Renderer is itself dropped by an unwinding panic
\* (render().unwrap()), in which case the process aborts.
drop_device_fields ==
    [p \in 1..MAX_FRAMES |-> Call("destroy_command_pool", "ok")] \o
    <<Call("destroy_descriptor_pool", "ok")>>

device_drop(idle, failAt) ==
    LET cleanup == cleanup_resources(pending_destruction_buffers, failAt)
        fields == IF last_call.res = "Ok" THEN drop_device_fields ELSE <<>>
    IN  /\ teardown # <<>>
        /\ CallIndicesIn(teardown, "device_wait_idle") = {}
        /\ failAt <= Len(pending_destruction_buffers)
        /\ idle = "ok" => device_wait_idle_returns(gpu_queue)
        /\ IF idle = "err"
           THEN /\ teardown' = teardown \o <<Call("device_wait_idle", idle),
                                             Call("panic", "err")>> \o fields
                /\ UNCHANGED <<pending_destruction_buffers, buffer_state, release_count>>
           ELSE /\ teardown' = teardown \o <<Call("device_wait_idle", idle)>> \o cleanup.calls
                                         \o (IF cleanup.ok THEN drop_device_fields
                                             ELSE <<Call("panic", "err")>> \o fields)
                /\ pending_destruction_buffers' = cleanup.queue
                /\ release_count' = [b \in Buffers |-> release_count[b] + cleanup.released[b]]
                /\ buffer_state' = [b \in Buffers |->
                       IF b \in DOMAIN cleanup.state THEN cleanup.state[b]
                       ELSE buffer_state[b]]
        /\ UNCHANGED buffer_age
        /\ UNCHANGED <<frame_counters, num_used_command_buffers_per_pool, gpu_queue,
                       semaphore_graphics_frame, commands, last_call, calls,
                       reset_in_flight, begins_in_row, surface_out_of_date, issued>>
        /\ UNCHANGED <<rangeVars, descVars, writeVars, poolVars, locks, present_thread, worker_threads>>

render_teardown ==
    \/ renderer_drop
    \/ \E idle \in CallOutcomes, failAt \in 0..Len(pending_destruction_buffers) :
          (idle = "err" => failAt = 0) /\ device_drop(idle, failAt)

\* The frame loop of the renderer with an asynchronous GPU and a consumer that
\* creates and drops buffers between Device calls.
Next ==
    \/ render_frame_begin
    \/ render_get_current_command_buffer
    \/ render_record
    \/ render_submit
    \/ render_present
    \/ gpu_complete
    \/ consumer_create_buffer
    \/ consumer_drop_buffer
    \/ render_teardown

Spec == Init /\ [][Next]_vars

\* The Device facade called in any order, on a surface that stays valid.
api_frame_begin ==
    \E o \in frame_begin_outcomes : o[3] = "ok" /\ frame_begin(o[1], o[2], o[3], o[4], o[5])

api_submit == \E submit \in CallOutcomes : queue_submit_commands_graphics(submit)

api_present ==
    \E present \in {"ok", "lost"}, idle \in CallOutcomes :
       (present = "ok" => idle = "ok") /\ swapchain_present(present, idle, 0)

NextApi ==
    \/ api_frame_begin
    \/ get_current_command_buffer
    \/ api_submit
    \/ api_present
    \/ gpu_complete

SpecApi == Init /\ [][NextApi]_vars

\* The frame loop when no GPU call fails for good: the GPU completes every
\* submission, acquisition succeeds at the first attempt or after one
\* recreation, and the loop itself keeps being scheduled (main.rs requests a
\* redraw after every event batch).
live_frame_begin ==
    /\ render_pc = "idle"
    /\ \E o \in frame_begin_outcomes :
          /\ o[1] = "ok" /\ o[2] = "ok" /\ o[4] = "ok" /\ o[5] \in {"ok", "stale"}
          /\ frame_begin(o[1], o[2], o[3], o[4], o[5])

live_submit ==
    /\ render_pc = "recording"
    /\ queue_submit_commands_graphics("ok")

live_present ==
    /\ render_pc = "submitted"
    /\ \E present \in PresentOutcomes : swapchain_present(present, "ok", 0)

NextLive ==
    \/ live_frame_begin
    \/ render_get_current_command_buffer
    \/ render_record
    \/ live_submit
    \/ live_present
    \/ gpu_complete
    \/ consumer_create_buffer
    \/ consumer_drop_buffer

SpecLive ==
    /\ Init
    /\ [][NextLive]_vars
    /\ WF_vars(live_frame_begin)
    /\ WF_vars(render_get_current_command_buffer)
    /\ WF_vars(live_submit)
    /\ WF_vars(live_present)
    /\ WF_vars(gpu_complete)

\* ---- vkAllocateDescriptorSets on the global pool ----
\* Descriptors of one type the pool was created with: entries of pool_sizes
\* with the same type add up.
RECURSIVE pool_capacity(_, _)
pool_capacity(pool_sizes, ty) ==
    IF pool_sizes = <<>> THEN 0
    ELSE (IF Head(pool_sizes).ty = ty THEN Head(pool_sizes).descriptor_count ELSE 0)
         + pool_capacity(Tail(pool_sizes), ty)

pool_exhausted_for(pool, layout) ==
    \/ pool.sets >= pool.max_sets
    \/ \E ty \in DescriptorTypes :
          pool.used[ty] + layout[ty] > pool_capacity(pool.pool_sizes, ty)

\* ---- Device::create_descriptor_set ----
\* alloc: outcome of allocate_descriptor_sets; the `?` returns its error.
\* a variant that doubles the pool and allocates again after a failure
create_descriptor_set_growing(pool, layout, alloc) ==
    IF alloc = "ok"
    THEN [res |-> "Ok",
          pool |-> [pool EXCEPT !.sets = @ + 1,
                                !.used = [ty \in DescriptorTypes |-> @[ty] + layout[ty]]],
          calls |-> <<[c |-> "allocate_descriptor_sets", r |-> alloc, layout |-> layout]>>]
    ELSE [res |-> "Ok",
          pool |-> [pool EXCEPT !.max_sets = 2 * @, !.sets = @ + 1],
          calls |-> <<[c |-> "allocate_descriptor_sets", r |-> alloc, layout |-> layout],
                      [c |-> "allocate_descriptor_sets", r |-> "ok", layout |-> layout]>>]

create_descriptor_set(pool, layout, alloc) ==
    IF alloc = "ok"
    THEN [res |-> "Ok",
          pool |-> [pool EXCEPT !.sets = @ + 1,
                                !.used = [ty \in DescriptorTypes |-> @[ty] + layout[ty]]],
          calls |-> <<[c |-> "allocate_descriptor_sets", r |-> alloc, layout |-> layout]>>]
    ELSE [res |-> "Err",
          pool |-> pool,
          calls |-> <<[c |-> "allocate_descriptor_sets", r |-> alloc, layout |-> layout]>>]

\* ---- Arc<DescriptorSetLayout> and Drop for DescriptorSetLayout ----
deviceVars == <<frame_counters, num_used_command_buffers_per_pool, gpu_queue,
                semaphore_graphics_frame, commands, reset_in_flight, begins_in_row,
                surface_out_of_date, teardown, issued>>

arc_clone(l) == [l EXCEPT !.strong = @ + 1]

\* a variant where every holder owns the layout by value: each drop destroys it
arc_drop_by_value(l) == [l EXCEPT !.strong = @ - 1, !.destroyed = @ + 1]

\* dropping the last strong reference runs Drop for DescriptorSetLayout
arc_drop(l) ==
    IF l.strong = 1
    THEN [l EXCEPT !.strong = 0, !.destroyed = @ + 1]
    ELSE [l EXCEPT !.strong = @ - 1]

destroy_calls(before, after) ==
    IF after.destroyed > before.destroyed
    THEN <<Call("destroy_descriptor_set_layout", "ok")>>
    ELSE <<>>

\* Device::create_descriptor_set_layout, wrapped in Arc::new by its caller
create_descriptor_set_layout(layout, r) ==
    /\ ~descriptor_set_layouts[layout].created
    /\ descriptor_set_layouts' =
           IF r = "ok"
           THEN [descriptor_set_layouts EXCEPT
                    ![layout] = [NoLayout EXCEPT !.created = TRUE, !.strong = 1,
                                                 !.creator = TRUE]]
           ELSE descriptor_set_layouts
    /\ last_call' = [op |-> "create_descriptor_set_layout",
                     res |-> IF r = "ok" THEN "Ok" ELSE "Err"]
    /\ calls' = <<Call("create_descriptor_set_layout", r)>>
    /\ UNCHANGED <<deviceVars, global_descriptor_pool>>
    /\ UNCHANGED bufferVars
    /\ UNCHANGED <<rangeVars, descVars, writeVars, threadVars>>

\* the creator's own Arc goes out of scope
drop_creator_layout(layout) ==
    LET l == descriptor_set_layouts[layout]
        after == arc_drop([l EXCEPT !.creator = FALSE])
    IN  /\ l.creator
        /\ descriptor_set_layouts' = [descriptor_set_layouts EXCEPT ![layout] = after]
        /\ last_call' = [op |-> "drop_creator_layout", res |-> "Ok"]
        /\ calls' = destroy_calls(l, after)
        /\ UNCHANGED <<deviceVars, global_descriptor_pool>>
        /\ UNCHANGED bufferVars
        /\ UNCHANGED <<rangeVars, descVars, writeVars, threadVars>>

\* Device::create_pipeline with a clone of the creator's Arc in the descriptor:
\* Ok moves it into Pipeline::_descriptor_set_layouts, Err drops it with the
\* descriptor.
create_pipeline(layout, r) ==
    LET l == descriptor_set_layouts[layout]
        passed == arc_clone(l)
        after == IF r = "ok" THEN [passed EXCEPT !.pipelines = @ + 1] ELSE arc_drop(passed)
    IN  /\ l.creator
        /\ l.pipelines < MaxHolders
        /\ descriptor_set_layouts' = [descriptor_set_layouts EXCEPT ![layout] = after]
        /\ last_call' = [op |-> "create_pipeline", res |-> IF r = "ok" THEN "Ok" ELSE "Err"]
        /\ calls' = <<Call("create_graphics_pipelines", r)>> \o destroy_calls(l, after)
        /\ UNCHANGED <<deviceVars, global_descriptor_pool>>
        /\ UNCHANGED bufferVars
        /\ UNCHANGED <<rangeVars, descVars, writeVars, threadVars>>

\* Drop for Pipeline, then the drop of its fields
drop_pipeline_layouts(layout) ==
    LET l == descriptor_set_layouts[layout]
        after == arc_drop([l EXCEPT !.pipelines = @ - 1])
    IN  /\ l.pipelines > 0
        /\ descriptor_set_layouts' = [descriptor_set_layouts EXCEPT ![layout] = after]
        /\ last_call' = [op |-> "drop_pipeline", res |-> "Ok"]
        /\ calls' = <<Call("destroy_pipeline", "ok"), Call("destroy_pipeline_layout", "ok")>>
                    \o destroy_calls(l, after)
        /\ UNCHANGED <<deviceVars, global_descriptor_pool>>
        /\ UNCHANGED bufferVars
        /\ UNCHANGED <<rangeVars, descVars, writeVars, threadVars>>

\* a DescriptorSet goes out of scope: no Drop impl, its fields are dropped and
\* the set stays allocated in the pool
drop_descriptor_set(layout) ==
    LET l == descriptor_set_layouts[layout]
        after == arc_drop([l EXCEPT !.sets = @ - 1])
    IN  /\ l.sets > 0
        /\ descriptor_set_layouts' = [descriptor_set_layouts EXCEPT ![layout] = after]
        /\ last_call' = [op |-> "drop_descriptor_set", res |-> "Ok"]
        /\ calls' = destroy_calls(l, after)
        /\ UNCHANGED <<deviceVars, global_descriptor_pool>>
        /\ UNCHANGED bufferVars
        /\ UNCHANGED <<rangeVars, descVars, writeVars, threadVars>>

\* the call with a clone of the creator's Arc in the descriptor: Ok moves it
\* into DescriptorSet::layout, Err drops it with the descriptor
do_create_descriptor_set(layout, alloc) ==
    LET r == create_descriptor_set(global_descriptor_pool, layout, alloc)
        l == descriptor_set_layouts[layout]
        passed == arc_clone(l)
        after == IF r.res = "Ok" THEN [passed EXCEPT !.sets = @ + 1] ELSE arc_drop(passed)
    IN  /\ l.creator
        \* an exhausted pool reports ERROR_OUT_OF_POOL_MEMORY
        /\ alloc = "ok" => ~pool_exhausted_for(global_descriptor_pool, layout)
        /\ global_descriptor_pool' = r.pool
        /\ descriptor_set_layouts' = [descriptor_set_layouts EXCEPT ![layout] = after]
        /\ last_call' = [op |-> "create_descriptor_set", res |-> r.res]
        /\ calls' = r.calls
        /\ UNCHANGED deviceVars
        /\ UNCHANGED bufferVars
        /\ UNCHANGED <<rangeVars, descVars, writeVars, threadVars>>

consumer_create_descriptor_set_layout ==
    \E layout \in SetLayouts, r \in CallOutcomes : create_descriptor_set_layout(layout, r)

consumer_create_descriptor_set ==
    \E layout \in SetLayouts, alloc \in CallOutcomes : do_create_descriptor_set(layout, alloc)

NextPool ==
    \/ consumer_create_descriptor_set_layout
    \/ consumer_create_descriptor_set

SpecPool == Init /\ [][NextPool]_vars

\* ---- layouts shared by their creator, pipelines and descriptor sets ----
layout_create_descriptor_set ==
    \E layout \in SetLayouts, alloc \in CallOutcomes :
        /\ descriptor_set_layouts[layout].sets < MaxHolders
        /\ global_descriptor_pool.sets < MaxHolders
        /\ do_create_descriptor_set(layout, alloc)

layout_create_pipeline ==
    \E layout \in SetLayouts, r \in CallOutcomes : create_pipeline(layout, r)

layout_drop_creator == \E layout \in SetLayouts : drop_creator_layout(layout)

layout_drop_pipeline == \E layout \in SetLayouts : drop_pipeline_layouts(layout)

layout_drop_descriptor_set == \E layout \in SetLayouts : drop_descriptor_set(layout)

NextLayout ==
    \/ consumer_create_descriptor_set_layout
    \/ layout_create_pipeline
    \/ layout_create_descriptor_set
    \/ layout_drop_creator
    \/ layout_drop_pipeline
    \/ layout_drop_descriptor_set

SpecLayout == Init /\ [][NextLayout]_vars

\* ---- swapchain_present and Buffer create / drop on separate threads ----
\* swapchain_present is split at its lock operations; a worker thread creates
\* and drops Buffers (Buffer holds Arc<Device>, so any thread may drop one).
lock_acquire(t, name) == [locks EXCEPT ![name] = t]

lock_release(lk, name) == [lk EXCEPT ![name] = "free"]

\* let swapchain = self.swapchain.lock();
present_lock_swapchain ==
    /\ present_thread.pc = "idle"
    /\ frame_counters.absolute < MaxAbsolute
    /\ locks.swapchain = "free"
    /\ locks' = lock_acquire("present", "swapchain")
    /\ present_thread' = [present_thread EXCEPT !.pc = "present"]
    /\ calls' = <<>>
    /\ UNCHANGED <<frame_counters, num_used_command_buffers_per_pool, gpu_queue,
                   semaphore_graphics_frame, commands, last_call, reset_in_flight,
                   begins_in_row, surface_out_of_date, teardown, issued>>
    /\ UNCHANGED bufferVars
    /\ UNCHANGED <<rangeVars, descVars, writeVars, poolVars, worker_threads, release_count>>

\* queue_present, device_wait_idle()? after a failure, frame_counters_advance
present_queue_present(present, idle) ==
    LET presentCalls == <<[c |-> "queue_present", r |-> present,
                           wait |-> present_wait_render_complete(frame_counters)]>> \o
                        (IF present # "ok" THEN <<Call("device_wait_idle", idle)>> ELSE <<>>)
    IN  /\ present_thread.pc = "present"
        /\ swapchain_reports(surface_out_of_date, present)
        /\ surface_out_of_date' = swapchain_after_call(surface_out_of_date, present)
        /\ (present # "ok" /\ idle = "ok") => device_wait_idle_returns(gpu_queue)
        /\ IF swapchain_present_advances(present, idle)
           THEN /\ frame_counters' = frame_counters_advance(frame_counters)
                /\ calls' = presentCalls \o <<Call("frame_counters_advance", "ok")>>
                /\ present_thread' = [present_thread EXCEPT !.pc = "cleanup"]
                /\ UNCHANGED <<locks, last_call>>
           ELSE /\ calls' = presentCalls
                /\ last_call' = [op |-> "swapchain_present", res |-> "Err"]
                /\ present_thread' = [present_thread EXCEPT !.pc = "idle"]
                /\ locks' = lock_release(locks, "swapchain")
                /\ UNCHANGED frame_counters
        /\ begins_in_row' = 0
        /\ UNCHANGED <<num_used_command_buffers_per_pool, gpu_queue,
                       semaphore_graphics_frame, commands, reset_in_flight, teardown, issued>>
        /\ UNCHANGED bufferVars
        /\ UNCHANGED <<rangeVars, descVars, writeVars, poolVars, worker_threads, release_count>>

\* cleanup_resources: self.resource_hub.lock(), then drain(..) takes the queue
cleanup_lock_resource_hub ==
    /\ present_thread.pc = "cleanup"
    /\ locks.resource_hub = "free"
    /\ locks' = lock_acquire("present", "resource_hub")
    /\ present_thread' = [pc |-> "draining", drain |-> pending_destruction_buffers]
    /\ pending_destruction_buffers' = <<>>
    /\ UNCHANGED <<buffer_state, buffer_age>>
    /\ UNCHANGED frameVars
    /\ UNCHANGED <<rangeVars, descVars, writeVars, poolVars, worker_threads, release_count>>

\* one turn of the loop: destroy_buffer(buffer)? with the allocator lock taken
\* and released inside; an error leaves the loop, the Drain drops the records
\* behind it and both guards are released on the way out
cleanup_destroy_buffer(free) ==
    LET b == Head(present_thread.drain)
        rest == Tail(present_thread.drain)
    IN  /\ present_thread.pc = "draining"
        /\ present_thread.drain # <<>>
        /\ locks.allocator = "free"
        /\ release_count' = [release_count EXCEPT ![b] = @ + 1]
        /\ calls' = Append(calls, Call("destroy_buffer", free))
        /\ IF free = "ok"
           THEN /\ buffer_state' = [buffer_state EXCEPT ![b] = destroy_buffer(free)]
                /\ present_thread' = [present_thread EXCEPT !.drain = rest]
                /\ UNCHANGED <<locks, last_call>>
           ELSE /\ buffer_state' = [c \in Buffers |->
                       IF c = b THEN destroy_buffer(free)
                       ELSE IF c \in SeqToSet(rest) THEN "lost"
                       ELSE buffer_state[c]]
                /\ present_thread' = [pc |-> "idle", drain |-> <<>>]
                /\ locks' = lock_release(lock_release(locks, "resource_hub"), "swapchain")
                /\ last_call' = [op |-> "swapchain_present", res |-> "Err"]
        /\ UNCHANGED <<frame_counters, num_used_command_buffers_per_pool, gpu_queue,
                       semaphore_graphics_frame, commands, reset_in_flight, begins_in_row,
                       surface_out_of_date, teardown, issued>>
        /\ UNCHANGED <<pending_destruction_buffers, buffer_age>>
        /\ UNCHANGED <<rangeVars, descVars, writeVars, poolVars, worker_threads>>

\* the loop ends: the resource_hub guard, then the swapchain guard are dropped
cleanup_return ==
    /\ present_thread.pc = "draining"
    /\ present_thread.drain = <<>>
    /\ present_thread' = [pc |-> "idle", drain |-> <<>>]
    /\ locks' = lock_release(lock_release(locks, "resource_hub"), "swapchain")
    /\ last_call' = [op |-> "swapchain_present", res |-> "Ok"]
    /\ UNCHANGED <<frame_counters, num_used_command_buffers_per_pool, gpu_queue,
                   semaphore_graphics_frame, commands, calls, reset_in_flight, begins_in_row,
                   surface_out_of_date, teardown, issued>>
    /\ UNCHANGED bufferVars
    /\ UNCHANGED <<rangeVars, descVars, writeVars, poolVars, worker_threads, release_count>>

\* create_buffer: self.shared.allocator.lock() ...
worker_create_buffer_lock(w) ==
    /\ worker_threads[w].pc = "idle"
    /\ \E b \in Buffers : buffer_state[b] = "none"
    /\ locks.allocator = "free"
    /\ locks' = lock_acquire(w, "allocator")
    /\ worker_threads' = [worker_threads EXCEPT ![w].pc = "allocating"]
    /\ UNCHANGED frameVars
    /\ UNCHANGED bufferVars
    /\ UNCHANGED <<rangeVars, descVars, writeVars, poolVars, present_thread, release_count>>

\* ... .allocate(..)?: the guard is a temporary, released with the statement
worker_create_buffer_allocate(w, alloc) ==
    /\ worker_threads[w].pc = "allocating"
    /\ worker_threads' = [worker_threads EXCEPT ![w].pc = "idle"]
    /\ locks' = lock_release(locks, "allocator")
    /\ IF alloc = "ok" /\ \E b \in Buffers : buffer_state[b] = "none"
       THEN LET b == CHOOSE c \in Buffers :
                        buffer_state[c] = "none" /\ \A d \in Buffers : d < c => buffer_state[d] # "none"
            IN  buffer_state' = [buffer_state EXCEPT ![b] = "live"]
       ELSE UNCHANGED buffer_state
    /\ UNCHANGED <<pending_destruction_buffers, buffer_age>>
    /\ UNCHANGED frameVars
    /\ UNCHANGED <<rangeVars, descVars, writeVars, poolVars, present_thread, release_count>>

\* Drop for Buffer: allocation.take(), then self.resource_hub.lock()
worker_drop_buffer_lock(w, b) ==
    /\ worker_threads[w].pc = "idle"
    /\ buffer_state[b] = "live"
    /\ locks.resource_hub = "free"
    /\ locks' = lock_acquire(w, "resource_hub")
    /\ worker_threads' = [worker_threads EXCEPT ![w] = [pc |-> "pushing", b |-> b]]
    /\ buffer_state' = [buffer_state EXCEPT ![b] = "dropping"]
    /\ UNCHANGED <<pending_destruction_buffers, buffer_age>>
    /\ UNCHANGED frameVars
    /\ UNCHANGED <<rangeVars, descVars, writeVars, poolVars, present_thread, release_count>>

\* ... .pending_destruction_buffers.push(..), the guard dropped after it
worker_drop_buffer_push(w) ==
    LET b == worker_threads[w].b
    IN  /\ worker_threads[w].pc = "pushing"
        /\ pending_destruction_buffers' =
               schedule_buffer_destruction(pending_destruction_buffers, b)
        /\ buffer_state' = [buffer_state EXCEPT ![b] = "pending"]
        /\ buffer_age' = [buffer_age EXCEPT ![b] = 0]
        /\ worker_threads' = [worker_threads EXCEPT ![w] = [pc |-> "idle", b |-> 0]]
        /\ locks' = lock_release(locks, "resource_hub")
        /\ UNCHANGED frameVars
        /\ UNCHANGED <<rangeVars, descVars, writeVars, poolVars, present_thread, release_count>>

thread_present_queue_present ==
    \E present \in PresentOutcomes, idle \in CallOutcomes : present_queue_present(present, idle)

thread_cleanup_destroy_buffer == \E free \in CallOutcomes : cleanup_destroy_buffer(free)

thread_create_buffer_lock == \E w \in Workers : worker_create_buffer_lock(w)

thread_create_buffer_allocate ==
    \E w \in Workers, alloc \in CallOutcomes : worker_create_buffer_allocate(w, alloc)

thread_drop_buffer_lock == \E w \in Workers, b \in Buffers : worker_drop_buffer_lock(w, b)

thread_drop_buffer_push == \E w \in Workers : worker_drop_buffer_push(w)

\* the steps of calls that have begun
NextStarted ==
    \/ thread_present_queue_present
    \/ cleanup_lock_resource_hub
    \/ thread_cleanup_destroy_buffer
    \/ cleanup_return
    \/ thread_create_buffer_allocate
    \/ thread_drop_buffer_push

NextThreads ==
    \/ present_lock_swapchain
    \/ thread_present_queue_present
    \/ cleanup_lock_resource_hub
    \/ thread_cleanup_destroy_buffer
    \/ cleanup_return
    \/ thread_create_buffer_lock
    \/ thread_create_buffer_allocate
    \/ thread_drop_buffer_lock
    \/ thread_drop_buffer_push

SpecThreads == Init /\ [][NextThreads]_vars

\* ---- the frame loop and the teardown when no GPU call fails ----
clean_frame_begin ==
    /\ render_pc = "idle"
    /\ frame_begin("ok", "ok", "ok", "ok", "ok")

clean_present ==
    /\ render_pc = "submitted"
    /\ swapchain_present("ok", "ok", 0)

clean_teardown ==
    \/ renderer_drop
    \/ device_drop("ok", 0)

NextClean ==
    \/ clean_frame_begin
    \/ render_get_current_command_buffer
    \/ render_record
    \/ live_submit
    \/ clean_present
    \/ gpu_complete
    \/ consumer_create_buffer
    \/ consumer_drop_buffer
    \/ clean_teardown

SpecClean == Init /\ [][NextClean]_vars

\* ---- Device::create_buffer with the outcomes of its three calls ----
\* vkCreateBuffer, allocator.allocate, vkBindBufferMemory, each followed by `?`.
\* "handle" is a vk::Buffer nobody owns; "unbound" is such a handle together
\* with an allocation that was dropped without allocator.free.
create_buffer_result(create, alloc, bind) ==
    IF create = "err" THEN [res |-> "Err", state |-> "none",
                            calls |-> <<Call("create_buffer", create)>>]
    ELSE IF alloc = "err" THEN [res |-> "Err", state |-> "handle",
                                calls |-> <<Call("create_buffer", create),
                                            Call("allocate", alloc)>>]
    ELSE IF bind = "err" THEN [res |-> "Err", state |-> "unbound",
                               calls |-> <<Call("create_buffer", create),
                                           Call("allocate", alloc),
                                           Call("bind_buffer_memory", bind)>>]
    ELSE [res |-> "Ok", state |-> "live",
          calls |-> <<Call("create_buffer", create), Call("allocate", alloc),
                      Call("bind_buffer_memory", bind)>>]

try_create_buffer(b, create, alloc, bind) ==
    LET r == create_buffer_result(create, alloc, bind)
    IN  /\ last_call.res # "Panic"
        /\ buffer_state[b] = "none"
        /\ \A c \in Buffers : c < b => buffer_state[c] # "none"
        /\ buffer_state' = [buffer_state EXCEPT ![b] = r.state]
        /\ last_call' = [op |-> "create_buffer", res |-> r.res]
        /\ calls' = r.calls
        /\ UNCHANGED <<pending_destruction_buffers, buffer_age>>
        /\ UNCHANGED <<frame_counters, num_used_command_buffers_per_pool, gpu_queue,
                       semaphore_graphics_frame, commands, reset_in_flight, begins_in_row,
                       surface_out_of_date, teardown, issued>>
        /\ UNCHANGED <<rangeVars, descVars, writeVars, poolVars, threadVars>>

create_buffer_outcomes ==
    {o \in CallOutcomes \X CallOutcomes \X CallOutcomes :
        /\ o[1] = "err" => o[2] = "ok"
        /\ o[2] = "err" => o[3] = "ok"}

consumer_try_create_buffer ==
    \E b \in Buffers, o \in create_buffer_outcomes : try_create_buffer(b, o[1], o[2], o[3])

NextCreate ==
    \/ consumer_try_create_buffer
    \/ consumer_drop_buffer
    \/ api_present

SpecCreate == Init /\ [][NextCreate]_vars

\* ---- SingleMeshTypePlatformRenderer: the draw range over the platforms ----
\* Runner positions are f32 in the source; here they lie on a grid whose step is
\* additional_offset, so that both comparisons of update_draw_range meet their
\* boundary exactly.
\* additional_offset (platform.rs line 235)
additional_offset == 4

\* a variant whose far end of the view lies behind the removal threshold
z_range_far_behind == -2 * additional_offset

\* global_parameters.z_range[1] (platform.rs line 273)
z_range_far == 20

RunnerPositions == {additional_offset * i : i \in 0..MaxRunnerSteps}
\* index counts of a platform mesh: a triangle and a quad
MeshIndexCounts == {3, 6}
\* PlatformObject::DynamicPlane with runner_position_start <= runner_position_end
PlatformObjects ==
    {p \in [runner_position_start : RunnerPositions, runner_position_end : RunnerPositions,
            indices : MeshIndexCounts] :
        /\ p.runner_position_start <= p.runner_position_end
        /\ p.runner_position_end <= p.runner_position_start + additional_offset}

\* u32 `a - b`: a negative result stands for the wrapped value 2^32 + (a - b)
\* of a release build (a debug build panics there)
sub_u32(a, b) == a - b

\* first loop of update_draw_range (lines 212-228): platforms that come into view
RECURSIVE add_platforms(_, _, _)
add_platforms(ps, dr, current_runner_position) ==
    IF /\ dr.last_platform_index < Len(ps)
       /\ ps[dr.last_platform_index + 1].runner_position_start
              < current_runner_position + z_range_far
    THEN add_platforms(ps,
             [dr EXCEPT !.last_platform_index = @ + 1,
                        !.index_count = @ + ps[dr.last_platform_index + 1].indices],
             current_runner_position)
    ELSE dr

\* second loop (lines 230-249): platforms the runner has passed
RECURSIVE remove_platforms(_, _, _)
remove_platforms(ps, dr, current_runner_position) ==
    IF /\ dr.first_platform_index < Len(ps)
       /\ ps[dr.first_platform_index + 1].runner_position_end + additional_offset
              < current_runner_position
    THEN remove_platforms(ps,
             [dr EXCEPT !.first_platform_index = @ + 1,
                        !.index_offset = @ + ps[dr.first_platform_index + 1].indices,
                        !.index_count = sub_u32(@, ps[dr.first_platform_index + 1].indices)],
             current_runner_position)
    ELSE dr

update_draw_range(ps, dr, current_runner_position) ==
    remove_platforms(ps, add_platforms(ps, dr, current_runner_position),
                     current_runner_position)

\* Renderer::set_platform_objects, called once before the event loop (main.rs line 56)
set_platforms_objects(ps) ==
    /\ platforms = <<>>
    /\ draw_range = DrawRange_new
    /\ platforms' = ps
    /\ UNCHANGED <<draw_range, runner_position>>
    /\ UNCHANGED <<frameVars, bufferVars, descVars, writeVars, poolVars, threadVars>>

\* Renderer::update: runner_position += runner_dp with runner_dp >= 0, then
\* PlatformRenderer::update_with_runner_position
update_with_runner_position(runner_dp) ==
    /\ runner_position + runner_dp \in RunnerPositions
    /\ runner_position' = runner_position + runner_dp
    /\ draw_range' = update_draw_range(platforms, draw_range, runner_position')
    /\ UNCHANGED platforms
    /\ UNCHANGED <<frameVars, bufferVars, descVars, writeVars, poolVars, threadVars>>

chart_set_platform_objects ==
    /\ platforms = <<>>
    /\ \E n \in 1..MaxPlatforms : \E ps \in [1..n -> PlatformObjects] :
          set_platforms_objects(ps)

renderer_update ==
    /\ platforms # <<>>
    /\ \E runner_dp \in RunnerPositions : update_with_runner_position(runner_dp)

NextRange ==
    \/ chart_set_platform_objects
    \/ renderer_update

SpecRange == Init /\ [][NextRange]_vars

\* ---- the CommandBufferManager called directly, next to the Device ----
PoolIndexLists == UNION {[1..n -> Pools] : n \in 0..MAX_FRAMES}

manager_reset_command_pools(pool_indices, failAt) ==
    LET r == reset_command_pools_list(num_used_command_buffers_per_pool, pool_indices, failAt)
    IN  /\ last_call.res # "Panic"
        /\ failAt <= Len(pool_indices)
        /\ num_used_command_buffers_per_pool' = r.used
        /\ issued' = [p \in Pools |-> IF r.used[p] = 0 /\ \E i \in 1..Len(r.calls) :
                                             r.calls[i].pool = p /\ r.calls[i].r = "ok"
                                      THEN <<>> ELSE issued[p]]
        /\ commands' = NoCommands
        /\ last_call' = [op |-> "reset_command_pools", res |-> r.res]
        /\ calls' = r.calls
        /\ UNCHANGED <<frame_counters, gpu_queue, semaphore_graphics_frame, reset_in_flight,
                       begins_in_row, surface_out_of_date, teardown>>
        /\ UNCHANGED bufferVars
        /\ UNCHANGED <<rangeVars, descVars, writeVars, poolVars, threadVars>>

manager_get_command_buffer_at_pool(pool_index) ==
    LET r == get_command_buffer_at_pool(num_used_command_buffers_per_pool, pool_index)
    IN  /\ last_call.res # "Panic"
        /\ num_used_command_buffers_per_pool' = r.used
        /\ commands' = IF r.res = "Ok" THEN [cb |-> r.index, bufs |-> {}] ELSE commands
        /\ issued' = IF r.res = "Ok"
                     THEN [issued EXCEPT ![pool_index] = Append(@, r.index)]
                     ELSE issued
        /\ last_call' = [op |-> "get_command_buffer_at_pool", res |-> r.res]
        /\ calls' = <<[c |-> "get_command_buffer_at_pool", r |-> r.res, pool |-> pool_index]>>
        /\ UNCHANGED <<frame_counters, gpu_queue, semaphore_graphics_frame, reset_in_flight,
                       begins_in_row, surface_out_of_date, teardown>>
        /\ UNCHANGED bufferVars
        /\ UNCHANGED <<rangeVars, descVars, writeVars, poolVars, threadVars>>

manager_reset ==
    \E pool_indices \in PoolIndexLists, failAt \in 0..MAX_FRAMES :
        manager_reset_command_pools(pool_indices, failAt)

manager_get == \E pool_index \in Pools : manager_get_command_buffer_at_pool(pool_index)

NextManager ==
    \/ manager_reset
    \/ manager_get
    \/ api_frame_begin
    \/ api_present

SpecManager == Init /\ [][NextManager]_vars

\* Descriptor-set updates by a consumer that owns some buffers.
consumer_update_descriptor_set == \E writes \in WriteBatches : do_update_descriptor_set(writes)

NextDescriptors ==
    \/ consumer_update_descriptor_set
    \/ consumer_create_buffer
    \/ consumer_drop_buffer

SpecDescriptors == Init /\ [][NextDescriptors]_vars

\* The frame loop next to a consumer that creates and drops buffers at any
\* time and writes the descriptor set once, before the first frame
\* (Renderer::new calls write_initital_gpu_resources / write_gpu_resources).
NoUpdate == [res |-> "Ok", before |-> [i \in {0, 1, 2} |-> 0], first_rejected |-> 0]

setup_update_descriptor_set ==
    /\ last_call.op = "new"
    /\ last_update = NoUpdate
    /\ descriptor_set = NoUpdate.before
    /\ consumer_update_descriptor_set

NextConsumer ==
    \/ render_frame_begin
    \/ render_get_current_command_buffer
    \/ render_submit
    \/ render_present
    \/ gpu_complete
    \/ consumer_create_buffer
    \/ consumer_drop_buffer
    \/ setup_update_descriptor_set

SpecConsumer == Init /\ [][NextConsumer]_vars

\* A consumer that creates buffers of every kind and writes slices to them.
consumer_create_buffer_desc ==
    \E size \in 0..MaxSize, memory_location \in MemoryLocations, mapped \in BOOLEAN :
        create_buffer_desc(size, memory_location, mapped)

consumer_write_data == \E data \in DataSlices : do_write_data(data)

NextWrite ==
    \/ consumer_create_buffer_desc
    \/ consumer_write_data

SpecWrite == Init /\ [][NextWrite]_vars


\* ======================= properties =======================

CallIndices(name) == {i \in 1..Len(calls) : calls[i].c = name}

IsPresentStep == last_call.op # "swapchain_present" /\ last_call'.op = "swapchain_present"

\* C1: in the frame loop, frame_begin never resets the command pool of the
\* current slot while a submission made when that slot was last current is
\* still executing on the GPU.
C1_PoolResetAfterGpuFinished ==
    /\ ~reset_in_flight
    /\ render_pc = "begun" => frame_counters.current \notin SlotsInFlight

C1_Witness ==
    /\ last_call = [op |-> "frame_begin", res |-> "Ok"]
    /\ frame_counters.absolute >= MAX_FRAMES
    /\ CallIndices("wait_semaphores") # {}
    /\ gpu_queue # <<>>

\* C2: no buffer is released while a submission that references it is still
\* executing on the GPU.
C2_NoReleaseWhileInFlight ==
    \A i \in 1..Len(gpu_queue) : \A b \in gpu_queue[i].bufs : buffer_state[b] # "released"

\* C3: a released buffer has seen at least MAX_FRAMES swapchain_present calls
\* return between its drop and its release.
C3_ReleaseAfterFullCycle ==
    \A b \in Buffers : buffer_state[b] = "released" => buffer_age[b] >= MAX_FRAMES

\* C4: absolute starts at 0; the counters change only in swapchain_present, by
\* absolute + 1, current stepping to the next slot in cyclic order and previous
\* taking the old current; a present that returns Ok has advanced them.
C4_CountersAdvance ==
    /\ frame_counters = [current |-> 0, previous |-> 0, absolute |-> 0]
    /\ [][(frame_counters' # frame_counters \/ (IsPresentStep /\ last_call'.res = "Ok")) =>
            (/\ IsPresentStep
             /\ frame_counters'.absolute = frame_counters.absolute + 1
             /\ frame_counters'.current =
                    (IF frame_counters.current = MAX_FRAMES - 1 THEN 0
                     ELSE frame_counters.current + 1)
             /\ frame_counters'.previous = frame_counters.current)]_vars

C4_Witness == frame_counters = [current |-> 1, previous |-> 0, absolute |-> MAX_FRAMES + 1]

\* C5: no pool ever has more than num_command_buffers_per_pool buffers handed
\* out in one cycle: the call after the quota is used up returns Err.
C5_CapacityError ==
    \A p \in Pools : num_used_command_buffers_per_pool[p] <= num_command_buffers_per_pool

\* C6: a batch with a write to a binding that is absent from the layout, or whose
\* declared type is neither uniform nor storage buffer, returns Err and leaves
\* every binding of the descriptor set as it was before the call.
C6_UpdateAtomic ==
    last_update.first_rejected # 0 =>
        /\ last_update.res = "Err"
        /\ descriptor_set = last_update.before

C6_Witness ==
    /\ last_update.first_rejected = 2
    /\ last_update.before = [i \in {0, 1, 2} |-> 0]
    /\ last_update.res = "Err"
    /\ descriptor_set = last_update.before

\* C7: while absolute < MAX_FRAMES a frame_begin makes no timeline wait, also
\* when it directly follows another frame_begin.
C7_NoWaitBeforeFirstReuse ==
    (last_call.op = "frame_begin" /\ frame_counters.absolute < MAX_FRAMES) =>
        CallIndices("wait_semaphores") = {}

C7_Witness ==
    /\ last_call = [op |-> "frame_begin", res |-> "Ok"]
    /\ begins_in_row = 2
    /\ frame_counters.absolute = 0
    /\ gpu_queue = <<>>
    /\ semaphore_graphics_frame = 0

\* C8: frame_begin recreates the surface at most once and only after a failed or
\* stale first acquisition, retries the acquisition exactly once after a
\* successful recreation, and returns Err when the recreation or the retry fails.
C8_OneRecreationOneRetry ==
    last_call.op = "frame_begin" =>
        LET acq == CallIndices("acquire_next_image")
            rec == CallIndices("recreate")
        IN  /\ Cardinality(rec) <= 1
            /\ Cardinality(acq) <= 2
            /\ \A i \in acq :
                  IF calls[i].r = "ok" /\ \A j \in acq : i <= j
                  THEN rec = {} /\ acq = {i}
                  ELSE (\A j \in acq : i <= j) =>
                          /\ rec = {i + 1}
                          /\ calls[i + 1].r = "ok" => acq = {i, i + 2}
                          /\ calls[i + 1].r = "err" => acq = {i}
            /\ (\E i \in rec : calls[i].r = "err") => last_call.res = "Err"
            /\ (Cardinality(acq) = 2 /\ calls[Len(calls)].r \in {"err", "lost"}) =>
                   last_call.res = "Err"

C8_Witness ==
    /\ last_call = [op |-> "frame_begin", res |-> "Err"]
    /\ Cardinality(CallIndices("recreate")) = 1
    /\ Cardinality(CallIndices("acquire_next_image")) = 2
    /\ calls[Len(calls)] = Call("acquire_next_image", "err")

\* C9 as stated: every swapchain_present call advances the counters exactly once
\* and drains the queue only after the advance.
C9_EveryPresentAdvances ==
    last_call.op = "swapchain_present" =>
        /\ Cardinality(CallIndices("frame_counters_advance")) = 1
        /\ \A i \in CallIndices("destroy_buffer") :
               \A j \in CallIndices("frame_counters_advance") : j < i

\* C9 amended: a swapchain_present call in which device_wait_idle does not fail
\* advances the counters exactly once, after a successful and after a failed
\* queue present, and releases buffers only after the advance; when
\* device_wait_idle fails the call leaves counters and queue alone.
C9_PresentAdvancesUnlessIdleFails ==
    [][IsPresentStep =>
          IF \E i \in 1..Len(calls') : calls'[i] = Call("device_wait_idle", "err")
          THEN UNCHANGED <<frame_counters, pending_destruction_buffers, buffer_state>>
          ELSE /\ frame_counters' =
                      [current  |-> (frame_counters.current + 1) % MAX_FRAMES,
                       previous |-> frame_counters.current,
                       absolute |-> frame_counters.absolute + 1]
               /\ \E a \in 1..Len(calls') :
                      /\ calls'[a].c = "frame_counters_advance"
                      /\ \A i \in 1..Len(calls') :
                            /\ calls'[i].c = "frame_counters_advance" => i = a
                            /\ calls'[i].c = "destroy_buffer" => a < i]_vars

C9_Witness ==
    /\ last_call.op = "swapchain_present"
    /\ calls[1].c = "queue_present" /\ calls[1].r = "err"
    /\ calls[2] = Call("device_wait_idle", "ok")
    /\ CallIndices("destroy_buffer") # {}
    /\ frame_counters.absolute >= 1

\* C10: in the frame loop at most MAX_FRAMES submissions are in flight.
C10_InFlightBounded == Len(gpu_queue) <= MAX_FRAMES

C10_Witness ==
    /\ Len(gpu_queue) = MAX_FRAMES
    /\ frame_counters.absolute >= MAX_FRAMES
    /\ last_call = [op |-> "queue_submit_commands_graphics", res |-> "Ok"]


\* C11: a successful submit waits on exactly the image-acquired semaphore and
\* signals exactly the render-complete semaphore of the slot `current` and the
\* timeline semaphore at absolute + 1, with the counters of the frame submitted.
C11_SubmitSemaphores ==
    (last_call = [op |-> "queue_submit_commands_graphics", res |-> "Ok"] /\ gpu_queue # <<>>) =>
        LET submission == gpu_queue[Len(gpu_queue)]
        IN  /\ submission.wait = {"semaphore_swapchain_image_acquired"}
            /\ submission.render_complete = frame_counters.current
            /\ submission.signal = frame_counters.absolute + 1

C11_Witness ==
    /\ last_call = [op |-> "queue_submit_commands_graphics", res |-> "Ok"]
    /\ Len(gpu_queue) = 2
    /\ frame_counters.absolute = 2
    /\ gpu_queue[2].render_complete = 0
    /\ gpu_queue[2].signal = 3

\* C12: the timeline value never decreases, the values waiting to be signaled
\* are in non-decreasing order and not below the current value, and after a
\* frame_begin whose wait returned Ok the value stays at or above the value
\* that was waited for.
C12_TimelineMonotonic ==
    /\ [](\A i \in 1..Len(gpu_queue) :
             /\ gpu_queue[i].signal >= semaphore_graphics_frame
             /\ \A j \in 1..i : gpu_queue[j].signal <= gpu_queue[i].signal)
    /\ []((last_call.op = "frame_begin" /\ Call("wait_semaphores", "ok") \in SeqToSet(calls)) =>
             semaphore_graphics_frame >= frame_counters.absolute - (MAX_FRAMES - 1))
    /\ [][semaphore_graphics_frame' >= semaphore_graphics_frame]_vars

C12_Witness ==
    /\ last_call.op = "frame_begin"
    /\ Call("wait_semaphores", "ok") \in SeqToSet(calls)
    /\ semaphore_graphics_frame = MAX_FRAMES
    /\ frame_counters.absolute = MAX_FRAMES


\* C14: an acquisition or presentation failure that is not an out-of-date
\* report makes frame_begin / swapchain_present return Err, with no surface
\* recreation and no other call after the failed one.
C14_OtherFailuresPropagate ==
    /\ last_call.op = "frame_begin" =>
          \A i \in 1..Len(calls) :
              calls[i] = Call("acquire_next_image", "lost") =>
                  (last_call.res = "Err" /\ i = Len(calls))
    /\ last_call.op = "swapchain_present" =>
          \A i \in 1..Len(calls) :
              (calls[i].c = "queue_present" /\ calls[i].r = "lost") =>
                  (last_call.res = "Err" /\ i = Len(calls))

\* C16 as stated: a swapchain_present whose queue present failed has waited for
\* the device to be idle before the counter advance and the drain, and returns Ok.
C16_FailedPresentWaitsIdleAndSucceeds ==
    (last_call.op = "swapchain_present" /\ Len(calls) >= 1 /\ calls[1].r # "ok") =>
        /\ last_call.res = "Ok"
        /\ Len(calls) >= 3
        /\ calls[2] = Call("device_wait_idle", "ok")
        /\ calls[3].c = "frame_counters_advance"
        /\ gpu_queue = <<>>

\* C16 amended: when the queue present failed and device_wait_idle returned Ok,
\* no submission was in flight from the wait on, the wait precedes the counter
\* advance, which precedes every release, and the call returns Ok unless a
\* release fails; when device_wait_idle failed the call returns Err and leaves
\* counters, queue and buffers alone.
C16_FailedPresentWaitsIdle ==
    [][(IsPresentStep /\ calls'[1].r # "ok") =>
          IF calls'[2] = Call("device_wait_idle", "ok")
          THEN /\ gpu_queue = <<>> /\ gpu_queue' = <<>>
               /\ calls'[3].c = "frame_counters_advance"
               /\ \A i \in 1..Len(calls') : calls'[i].c = "destroy_buffer" => i > 3
               /\ frame_counters'.absolute = frame_counters.absolute + 1
               /\ pending_destruction_buffers' = <<>>
               /\ (last_call'.res = "Ok") <=>
                      (\A i \in 1..Len(calls') : calls'[i] # Call("destroy_buffer", "err"))
          ELSE /\ calls'[2] = Call("device_wait_idle", "err")
               /\ last_call'.res = "Err"
               /\ UNCHANGED <<frame_counters, pending_destruction_buffers, buffer_state>>]_vars

C16_Witness ==
    /\ last_call = [op |-> "swapchain_present", res |-> "Ok"]
    /\ calls[1].c = "queue_present" /\ calls[1].r # "ok"
    /\ calls[2] = Call("device_wait_idle", "ok")
    /\ \E b \in Buffers : buffer_state[b] = "released"
    /\ gpu_queue = <<>>
    /\ semaphore_graphics_frame = frame_counters.absolute

\* C17: a frame_begin that returns Ok directly after a swapchain_present whose
\* queue present failed has recreated the surface.
C17_RecreateAfterFailedPresent ==
    [][(/\ last_call.op = "swapchain_present"
        /\ calls[1].r # "ok"
        /\ last_call'.op = "frame_begin"
        /\ last_call'.res = "Ok")
       => \E i \in 1..Len(calls') : calls'[i] = Call("recreate", "ok")]_vars


ReleaseCalls ==
    {"destroy_buffer", "destroy_pipeline", "destroy_pipeline_layout",
     "destroy_descriptor_set_layout", "destroy_descriptor_pool", "destroy_command_pool"}

\* C13: while Renderer and Device are dropped, no buffer, pipeline, pipeline
\* layout, descriptor-set layout, descriptor pool or command pool is released
\* before device_wait_idle has returned Ok.
C13_NoReleaseBeforeIdle ==
    \A i \in 1..Len(teardown) :
        teardown[i].c \in ReleaseCalls =>
            \E j \in 1..(i - 1) : teardown[j] = Call("device_wait_idle", "ok")


Released == {"released", "half"}

IsDeviceDropStep ==
    /\ CallIndicesIn(teardown, "device_wait_idle") = {}
    /\ CallIndicesIn(teardown', "device_wait_idle") # {}

\* C15: the step that drops a live buffer leaves it unreleased, with exactly one
\* record appended to the pending-destruction queue, and releases nothing; a
\* buffer is released only out of the queue, in a swapchain_present or in the
\* drop of the Device.
C15_DropOnlyQueues ==
    [][\A b \in Buffers :
          /\ (buffer_state[b] = "live" /\ buffer_state'[b] # "live") =>
                /\ buffer_state'[b] = "pending"
                /\ Cardinality({i \in 1..Len(pending_destruction_buffers) :
                                   pending_destruction_buffers[i] = b}) = 0
                /\ Cardinality({i \in 1..Len(pending_destruction_buffers') :
                                   pending_destruction_buffers'[i] = b}) = 1
                /\ Len(pending_destruction_buffers') >= Len(pending_destruction_buffers)
                /\ SubSeq(pending_destruction_buffers', 1, Len(pending_destruction_buffers))
                       = pending_destruction_buffers
                /\ \A c \in Buffers : buffer_state'[c] \in Released => buffer_state[c] \in Released
          /\ (buffer_state'[b] \in Released /\ buffer_state[b] \notin Released) =>
                /\ buffer_state[b] = "pending"
                /\ \E i \in 1..Len(pending_destruction_buffers) :
                       pending_destruction_buffers[i] = b
                /\ IsPresentStep \/ IsDeviceDropStep]_vars

C15_Witness ==
    /\ buffer_state[1] = "released"
    /\ buffer_state[2] = "pending"
    /\ pending_destruction_buffers = <<2>>
    /\ teardown = <<>>


\* C19: the command buffers a pool has handed out since its last reset are
\* pairwise different.
C19_NoDoubleIssueInCycle ==
    \A p \in Pools :
        \A i \in 1..Len(issued[p]) : \A j \in 1..Len(issued[p]) :
            i # j => issued[p][i] # issued[p][j]

C19_Witness ==
    /\ Len(issued[0]) = 2
    /\ last_call = [op |-> "get_current_command_buffer", res |-> "Ok"]
    /\ frame_counters.current = 0
    /\ frame_counters.absolute = MAX_FRAMES


\* C20: write_data on a buffer without a mapped pointer returns Err and leaves
\* the buffer's memory as it was.
C20_UnmappedWriteReturnsErr ==
    (last_write.res # "none" /\ ~write_buffer.mapped) =>
        /\ last_write.res = "Err"
        /\ write_buffer.bytes = last_write.before
        /\ write_buffer.outside = 0


\* C18: in the fair frame loop every frame_begin returns (the loop does not
\* stay in front of the timeline wait), every get_current_command_buffer
\* returns Ok, and every begun frame gets its command buffer.
C18_FrameLoopLive ==
    /\ (render_pc = "idle") ~> (render_pc = "begun")
    /\ (render_pc = "begun") ~> (render_pc = "recording")
    /\ [](last_call.op = "get_current_command_buffer" => last_call.res = "Ok")

C18_Witness ==
    /\ render_pc = "recording"
    /\ frame_counters.absolute = MAX_FRAMES + 1
    /\ Len(gpu_queue) = 1
    /\ semaphore_graphics_frame = MAX_FRAMES


\* C21: after a write_data that returned Ok on a buffer at least as large as
\* the data, the first len(data) bytes read through the mapped pointer are the
\* bytes of data, in order.
C21_WriteReadRoundTrip ==
    (last_write.res = "Ok" /\ Len(last_write.data) <= write_buffer.size) =>
        read_mapped(write_buffer, Len(last_write.data)) = last_write.data

C21_Witness ==
    /\ last_write.res = "Ok"
    /\ write_buffer.mapped
    /\ write_buffer.size = MaxSize
    /\ last_write.data = <<2>>
    /\ last_write.before = [i \in 1..MaxSize |-> 1]
    /\ write_buffer.bytes = [i \in 1..MaxSize |-> IF i = 1 THEN 2 ELSE 1]


\* C22: a reset_command_pools that returns Ok leaves every named pool with
\* counter 0 and every other counter as it was (on Err no pool not named is
\* touched either); a frame_begin changes no counter but the one of the slot
\* `current`, which is 0 after a successful pool reset.
C22_ResetZeroesNamedPools ==
    [][/\ (last_call'.op = "reset_command_pools" /\ <<last_call, calls, num_used_command_buffers_per_pool>>'
                # <<last_call, calls, num_used_command_buffers_per_pool>>) =>
            LET named == {calls'[i].pool : i \in 1..Len(calls')}
            IN  \A p \in Pools :
                   /\ (p \in named /\ last_call'.res = "Ok") =>
                          num_used_command_buffers_per_pool'[p] = 0
                   /\ p \notin named =>
                          num_used_command_buffers_per_pool'[p] = num_used_command_buffers_per_pool[p]
       /\ (last_call'.op = "frame_begin") =>
            /\ \A p \in Pools : p # frame_counters.current =>
                   num_used_command_buffers_per_pool'[p] = num_used_command_buffers_per_pool[p]
            /\ Call("reset_command_pool", "ok") \in SeqToSet(calls') =>
                   num_used_command_buffers_per_pool'[frame_counters.current] = 0]_vars

C22_Witness ==
    /\ last_call = [op |-> "reset_command_pools", res |-> "Ok"]
    /\ Len(calls) = 1
    /\ calls[1].pool = 0
    /\ num_used_command_buffers_per_pool[0] = 0
    /\ num_used_command_buffers_per_pool[1] = num_command_buffers_per_pool
    /\ issued[0] = <<>>
    /\ issued[1] # <<>>


\* C23: a step that ends in a frame_begin, get_current_command_buffer or
\* queue_submit_commands_graphics, or that creates or drops a buffer or updates
\* the descriptor set, leaves current, previous and absolute as they were; the
\* counters change in swapchain_present steps only.
C23_OnlyPresentChangesCounters ==
    [][/\ (\/ last_call'.op \in {"frame_begin", "get_current_command_buffer",
                                 "queue_submit_commands_graphics"}
           \/ buffer_state' # buffer_state /\ ~IsPresentStep
           \/ <<descriptor_set, last_update>>' # <<descriptor_set, last_update>>)
          => frame_counters' = frame_counters
       /\ frame_counters' # frame_counters => IsPresentStep]_vars

C23_Witness ==
    /\ frame_counters.absolute = MAX_FRAMES
    /\ last_call = [op |-> "frame_begin", res |-> "Err"]
    /\ last_update.res = "Err"
    /\ \E b \in Buffers : buffer_state[b] = "pending"


\* C24: current = absolute mod MAX_FRAMES, hence a valid slot index, and once
\* absolute >= 1, previous = (absolute - 1) mod MAX_FRAMES.
C24_CurrentIsAbsoluteModFrames ==
    /\ frame_counters.current = frame_counters.absolute % MAX_FRAMES
    /\ frame_counters.current \in Pools
    /\ frame_counters.absolute >= 1 =>
           frame_counters.previous = (frame_counters.absolute - 1) % MAX_FRAMES

C24_Witness ==
    /\ last_call.op = "swapchain_present"
    /\ frame_counters.absolute = MAX_FRAMES
    /\ frame_counters.current = 0
    /\ frame_counters.previous = MAX_FRAMES - 1


\* C25: create_descriptor_set makes one allocation call on the global pool; on
\* an exhausted pool (and on any other allocation failure) it returns Err and
\* leaves the pool, its capacity and the sets allocated so far as they were.
C25_PoolExhaustionIsAnError ==
    /\ [](last_call.op = "create_descriptor_set" =>
             (Len(calls) = 1 /\ (calls[1].r = "err" <=> last_call.res = "Err")))
    /\ [](/\ global_descriptor_pool.max_sets = global_descriptor_pool_max_sets
          /\ global_descriptor_pool.pool_sizes = global_descriptor_pool_sizes
          /\ global_descriptor_pool.sets <= global_descriptor_pool.max_sets)
    /\ [][last_call'.op = "create_descriptor_set" =>
            /\ pool_exhausted_for(global_descriptor_pool, calls'[1].layout) =>
                   last_call'.res = "Err"
            /\ last_call'.res = "Err" => global_descriptor_pool' = global_descriptor_pool
            /\ global_descriptor_pool'.sets >= global_descriptor_pool.sets]_vars

C25_Witness ==
    /\ last_call = [op |-> "create_descriptor_set", res |-> "Err"]
    /\ global_descriptor_pool.used["UNIFORM_BUFFER"] = 2 * GLOBAL_DESCRIPTOR_POOL_DESCRIPTOR_COUNT
    /\ global_descriptor_pool.sets = 2 * GLOBAL_DESCRIPTOR_POOL_DESCRIPTOR_COUNT
    /\ calls[1].layout["STORAGE_BUFFER"] = 0


\* C26: a descriptor-set layout is destroyed once, by the drop of the last strong
\* reference: never while its creator, a Pipeline or a DescriptorSet holds it.
C26_LayoutOutlivesHolders ==
    \A layout \in SetLayouts :
        LET l == descriptor_set_layouts[layout]
        IN  /\ l.strong = (IF l.creator THEN 1 ELSE 0) + l.pipelines + l.sets
            /\ (l.creator \/ l.pipelines > 0 \/ l.sets > 0) => l.destroyed = 0
            /\ l.destroyed = (IF l.created /\ l.strong = 0 THEN 1 ELSE 0)

C26_Witness ==
    \E layout \in SetLayouts :
        /\ descriptor_set_layouts[layout].destroyed = 1
        /\ last_call.op = "drop_pipeline"
        /\ global_descriptor_pool.sets > 0
        /\ \A other \in SetLayouts \ {layout} : ~descriptor_set_layouts[other].created


\* The queue is read and written only by the owner of the resource_hub lock, no
\* record is released twice, and a call that has begun can always take a step.
LocksExclude ==
    /\ present_thread.pc = "draining" <=> locks.resource_hub = "present"
    /\ present_thread.pc \in {"present", "cleanup", "draining"} <=> locks.swapchain = "present"
    /\ \A w \in Workers :
          /\ worker_threads[w].pc = "pushing" <=> locks.resource_hub = w
          /\ worker_threads[w].pc = "allocating" <=> locks.allocator = w
    /\ \A b \in Buffers : release_count[b] <= 1
    /\ \A b \in Buffers :
          Cardinality({i \in 1..Len(pending_destruction_buffers) :
                          pending_destruction_buffers[i] = b})
          + Cardinality({i \in 1..Len(present_thread.drain) : present_thread.drain[i] = b})
          = (IF buffer_state[b] = "pending" THEN 1 ELSE 0)

NoDeadlock ==
    (present_thread.pc # "idle" \/ \E w \in Workers : worker_threads[w].pc # "idle")
        => ENABLED NextStarted

\* C27: whatever the interleaving of Buffer drops with swapchain_present, a
\* dropped buffer's record is released once by the drain or stays queued for a
\* later one: it is never lost, never released twice, and no thread deadlocks.
C27_DropsAndDrainExclude ==
    /\ LocksExclude
    /\ NoDeadlock
    /\ \A b \in Buffers : buffer_state[b] # "lost"


\* C28: inside frame_begin the timeline wait (made exactly when absolute >=
\* MAX_FRAMES) comes first, the reset of the current slot's pool second and the
\* image acquisition last; after a failed wait or a failed reset there is no
\* acquisition, and no reset after a failed wait.
C28_FrameBeginStepOrder ==
    last_call.op = "frame_begin" =>
        LET waits == CallIndices("wait_semaphores")
            resets == CallIndices("reset_command_pool")
            acquires == CallIndices("acquire_next_image") \cup CallIndices("recreate")
        IN  /\ waits = (IF frame_counters.absolute >= MAX_FRAMES THEN {1} ELSE {})
            /\ Cardinality(resets) <= 1
            /\ \A w \in waits, r \in resets : w < r
            /\ \A r \in resets, a \in acquires : r < a
            /\ \A w \in waits : calls[w].r = "err" => (resets = {} /\ acquires = {})
            /\ \A r \in resets : calls[r].r = "err" => acquires = {}
            /\ acquires # {} => (resets # {} /\ \A w \in waits : calls[w].r = "ok")
            /\ last_call.res = "Ok" => acquires # {}

C28_Witness ==
    /\ last_call = [op |-> "frame_begin", res |-> "Ok"]
    /\ frame_counters.absolute >= MAX_FRAMES
    /\ calls = <<Call("wait_semaphores", "ok"), Call("reset_command_pool", "ok"),
                 Call("acquire_next_image", "ok")>>


\* C29: a swapchain_present that returns Ok has drained the queue once: the
\* queue is empty afterwards and each record queued before it has had one
\* destroy_buffer call, its only one; a swapchain_present makes no other
\* release, and frame_begin and queue_submit_commands_graphics release nothing
\* and leave the queue as it is.
C29_PresentDrainsOnce ==
    [][/\ IsPresentStep =>
             /\ last_call'.res = "Ok" =>
                   /\ pending_destruction_buffers' = <<>>
                   /\ Cardinality(CallIndicesIn(calls', "destroy_buffer"))
                          = Len(pending_destruction_buffers)
                   /\ \A b \in SeqToSet(pending_destruction_buffers) :
                          /\ buffer_state'[b] = "released"
                          /\ release_count[b] = 0
                          /\ release_count'[b] = 1
             /\ \A b \in Buffers \ SeqToSet(pending_destruction_buffers) :
                   /\ release_count'[b] = release_count[b]
                   /\ buffer_state'[b] = buffer_state[b]
       /\ (last_call' # last_call /\ last_call'.op \in {"frame_begin", "queue_submit_commands_graphics"}) =>
             /\ CallIndicesIn(calls', "destroy_buffer") = {}
             /\ release_count' = release_count
             /\ buffer_state' = buffer_state
             /\ pending_destruction_buffers' = pending_destruction_buffers]_vars

C29_Witness ==
    /\ last_call = [op |-> "swapchain_present", res |-> "Ok"]
    /\ Cardinality(CallIndices("destroy_buffer")) = 2
    /\ release_count = [b \in Buffers |-> IF b <= 2 THEN 1 ELSE 0]
    /\ pending_destruction_buffers = <<>>


\* C30: every buffer handed out by get_command_buffer_at_pool(p) has an index in
\* [p * num_command_buffers_per_pool, (p + 1) * num_command_buffers_per_pool):
\* a call never returns a buffer of another pool and never indexes past the end
\* of command_buffers.
C30_BufferBelongsToPool ==
    /\ \A p \in Pools : \A i \in 1..Len(issued[p]) :
          /\ issued[p][i] >= p * num_command_buffers_per_pool
          /\ issued[p][i] < (p + 1) * num_command_buffers_per_pool
    /\ last_call.res # "Panic"


\* C31: in a frame cycle swapchain_present waits on the render-complete
\* semaphore of the slot that the cycle's queue_submit_commands_graphics
\* signalled: both read frame_counters.current, and the counters advance only
\* after queue_present has been given the semaphore.
C31_PresentWaitsOnSubmittedSlot ==
    [][IsPresentStep =>
          /\ last_call = [op |-> "queue_submit_commands_graphics", res |-> "Ok"]
          /\ calls[1].c = "queue_submit"
          /\ calls'[1].c = "queue_present"
          /\ calls'[1].wait = calls[1].signal
          /\ calls'[1].wait = frame_counters.current
          /\ frame_counters'.absolute \in {frame_counters.absolute, frame_counters.absolute + 1}]_vars

C31_Witness ==
    /\ last_call = [op |-> "swapchain_present", res |-> "Ok"]
    /\ frame_counters.absolute = MAX_FRAMES
    /\ calls[1].c = "queue_present"
    /\ calls[1].wait = MAX_FRAMES - 1


IsFrameBeginStep == last_call.op # "frame_begin" /\ last_call'.op = "frame_begin"

\* acquisitions of the call log that signal the image-acquired semaphore:
\* Ok((_, false)) and Ok((_, true)) are both successes
SignalingAcquires(log) ==
    {i \in 1..Len(log) : log[i].c = "acquire_next_image" /\ log[i].r \in {"ok", "stale"}}

\* C32: when frame_begin hands semaphore_swapchain_image_acquired to an
\* acquisition, no submission that waits on it is still pending on the GPU, and
\* one frame_begin does not signal it twice (the retry after a stale-surface
\* report included).
C32_ImageAcquiredSemaphoreIdle ==
    [][(IsFrameBeginStep /\ CallIndicesIn(calls', "acquire_next_image") # {}) =>
          /\ \A i \in 1..Len(gpu_queue) :
                "semaphore_swapchain_image_acquired" \notin gpu_queue[i].wait
          /\ Cardinality(SignalingAcquires(calls')) <= 1]_vars


DeviceDropped == CallIndicesIn(teardown, "device_wait_idle") # {}

\* C33: when no GPU call fails, a created buffer is released at most once, a
\* released buffer exactly once, and once the Device has been dropped every
\* created buffer has been released and the queue is empty.
C33_EveryBufferReleasedOnce ==
    /\ \A b \in Buffers :
          /\ release_count[b] <= 1
          /\ buffer_state[b] = "released" <=> release_count[b] = 1
          /\ buffer_state[b] \in {"none", "live", "pending", "released"}
          /\ buffer_state[b] = "pending" <=>
                 Cardinality({i \in 1..Len(pending_destruction_buffers) :
                                 pending_destruction_buffers[i] = b}) = 1
          /\ buffer_state[b] # "pending" =>
                 \A i \in 1..Len(pending_destruction_buffers) :
                     pending_destruction_buffers[i] # b
    /\ DeviceDropped =>
          /\ pending_destruction_buffers = <<>>
          /\ \A b \in Buffers : buffer_state[b] \in {"none", "released"}

C33_Witness ==
    /\ DeviceDropped
    /\ \A b \in Buffers : b <= 2 => buffer_state[b] = "released"
    /\ Cardinality(CallIndicesIn(teardown, "destroy_buffer")) = 1
    /\ frame_counters.absolute >= 1


\* C34: after a cleanup_resources in which a destroy_buffer failed, every buffer
\* that was queued behind the failing one is either released or still in the
\* pending-destruction queue.
C34_RecordsBehindFailureKept ==
    \A b \in Buffers :
        \/ buffer_state[b] \in {"none", "live", "released", "half"}
        \/ \E i \in 1..Len(pending_destruction_buffers) : pending_destruction_buffers[i] = b


\* C35: a create_buffer that returns Err leaves no buffer handle and no memory
\* allocated: the device's buffers are as they were before the call.
C35_FailedCreateLeavesNothing ==
    [][(last_call' # last_call /\ last_call'.op = "create_buffer" /\ last_call'.res = "Err") =>
          buffer_state' = buffer_state]_vars


\* C36: write_data copies at most size bytes: no byte lands past the end of the
\* buffer, and a write of more data than the buffer holds returns Err with the
\* memory as it was.
C36_WriteStaysInsideBuffer ==
    /\ write_buffer.outside = 0
    /\ (last_write.res # "none" /\ write_buffer.mapped
            /\ Len(last_write.data) > write_buffer.size) =>
          /\ last_write.res = "Err"
          /\ write_buffer.bytes = last_write.before


\* timeline value signalled by the most recent submission
MostRecentSignal ==
    IF gpu_queue # <<>> THEN gpu_queue[Len(gpu_queue)].signal ELSE semaphore_graphics_frame

\* C37: frame_begin evaluates absolute - (MAX_FRAMES - 1) only when absolute >=
\* MAX_FRAMES, so the unsigned subtraction does not underflow; the value waited
\* for is at least 1 and at most the value signalled by the most recent
\* submission of an earlier frame.
C37_WaitValueInRange ==
    (last_call.op = "frame_begin" /\ CallIndices("wait_semaphores") # {}) =>
        /\ frame_counters.absolute >= MAX_FRAMES
        /\ frame_counters.absolute >= MAX_FRAMES - 1
        /\ frame_semaphore_graphics_wait_value(frame_counters.absolute) >= 1
        /\ frame_semaphore_graphics_wait_value(frame_counters.absolute) <= MostRecentSignal
        /\ MostRecentSignal = frame_counters.absolute

C37_Witness ==
    /\ last_call = [op |-> "frame_begin", res |-> "Ok"]
    /\ CallIndices("wait_semaphores") = {1}
    /\ frame_counters.absolute = MAX_FRAMES
    /\ frame_semaphore_graphics_wait_value(frame_counters.absolute) = 1
    /\ Len(gpu_queue) = 1
    /\ MostRecentSignal = MAX_FRAMES


\* C38: the global descriptor pool has descriptors of every type that
\* update_descriptor_set accepts, so that a set of any layout, the one with a
\* storage-buffer binding included, can be allocated from the pool while
\* nothing else has been allocated from it.
C38_PoolProvisionsAcceptedTypes ==
    \A layout \in SetLayouts :
        (/\ descriptor_set_layouts[layout].creator
         /\ global_descriptor_pool.sets = 0) =>
            /\ \A ty \in DescriptorTypes :
                  pool_capacity(global_descriptor_pool.pool_sizes, ty) >= layout[ty]
            /\ ~pool_exhausted_for(global_descriptor_pool, layout)


\* a step in which the Device method op is called
DeviceCalled(op) ==
    /\ last_call'.op = op
    /\ \/ <<last_call, calls, begins_in_row, num_used_command_buffers_per_pool,
            frame_counters, issued>>' #
          <<last_call, calls, begins_in_row, num_used_command_buffers_per_pool,
            frame_counters, issued>>
       \/ Len(gpu_queue') > Len(gpu_queue)

\* a step in which commands are recorded into the current command buffer
IsRecordStep == last_call' = last_call /\ commands'.bufs # commands.bufs

\* C39: a render call makes its Device calls in the order frame_begin,
\* get_current_command_buffer, recording, queue_submit_commands_graphics,
\* swapchain_present: each call follows the successful return of the one before
\* it, a frame begins only after the previous frame's present returned Ok (or
\* on the new Device), and after a call returned an error no further call of
\* the frame is made.
C39_RenderCallOrder ==
    [][/\ DeviceCalled("frame_begin") =>
             last_call \in {[op |-> "new", res |-> "Ok"],
                            [op |-> "swapchain_present", res |-> "Ok"]}
       /\ DeviceCalled("get_current_command_buffer") =>
             last_call = [op |-> "frame_begin", res |-> "Ok"]
       /\ IsRecordStep =>
             last_call = [op |-> "get_current_command_buffer", res |-> "Ok"]
       /\ DeviceCalled("queue_submit_commands_graphics") =>
             last_call = [op |-> "get_current_command_buffer", res |-> "Ok"]
       /\ DeviceCalled("swapchain_present") =>
             last_call = [op |-> "queue_submit_commands_graphics", res |-> "Ok"]
       /\ last_call.res # "Ok" =>
             /\ last_call' = last_call
             /\ calls' = calls
             /\ commands' = commands
             /\ frame_counters' = frame_counters]_vars

C39_Witness ==
    /\ last_call = [op |-> "queue_submit_commands_graphics", res |-> "Ok"]
    /\ frame_counters.absolute = 1
    /\ begins_in_row = 1
    /\ Len(issued[0]) = 1
    /\ Len(issued[1]) = 1
    /\ commands = NoCommands


RECURSIVE TotalIndices(_, _, _)
\* total index count of the platforms with (0-based) index in [from, to)
TotalIndices(ps, from, to) ==
    IF from >= to THEN 0 ELSE ps[from + 1].indices + TotalIndices(ps, from + 1, to)

====
